---- MODULE Spec2Model ----
(***************************************************************************)
(* The window / view coordinator of the browser shell: the per-window view *)
(* collection (running_app_state.rs, WebViewCollection), the window and     *)
(* its dirty flags (window.rs), the application state machine and its tick  *)
(* (app.rs, running_app_state.rs) and the location-bar resolver (parser.rs).*)
(***************************************************************************)
EXTENDS Integers, Sequences, FiniteSets, TLC

VARIABLES
    state,            \* App::state: "Initializing", "Running" or "ShuttingDown"
    windows,          \* RunningAppState::windows: window id -> window record
    exit_scheduled,   \* RunningAppState::exit_scheduled
    pc,               \* position of the host thread inside pump_servo_event_loop
    pending,          \* windows of the tick's snapshot that are still to be drained
    ret,              \* value returned by the latest pump call: "none", "true", "false"
    pump,             \* how the latest pump call ended: "none", "tick", "not_running"
    panicked,         \* message of the panic that aborted the process, or NoPanic
    calls,            \* calls made on engine views by the latest step, in order
    batch,            \* commands drained by the latest command step
    applied,          \* those of batch whose match arm was entered, in order
    refreshed,        \* windows whose UI was asked to refresh by the latest flag step
    repainted,        \* windows for which the latest flag step requested a repaint
    pruned,           \* windows removed by the latest pruning step -> their should_close
    drains,           \* window of the tick's snapshot -> times it was drained so far
    events_left,      \* delegate events the engine may still deliver in this spin
    next_webview_id,  \* next identifier the engine hands out for a view
    next_window_id,   \* next identifier the platform hands out for a window
    taken,            \* what the latest take_pending_favicon_loads returned
    typed,            \* text handed to the location-bar resolver
    template,         \* search-page template handed to the resolver
    resolved          \* what the resolver returned for them, or NotResolved

vars == <<state, windows, exit_scheduled, pc, pending, ret, pump, panicked, calls,
          batch, applied, refreshed, repainted, pruned, drains, events_left,
          next_webview_id, next_window_id, taken, typed, template, resolved>>

\* The variables of the resolver's own specification.
resolver == <<typed, template, resolved>>

(***************************************************************************)
(* Bounds of the model.                                                    *)
(***************************************************************************)
MaxViews == 3       \* views the engine creates in one run
MaxWindows == 2     \* windows the platform creates in one run
MaxQueue == 2       \* commands buffered over all windows between two ticks
MaxEvents == 2      \* delegate events delivered during one engine spin
MaxFavicons == 2    \* entries of pending_favicon_loads over all windows
MaxLen == 5        \* characters of a text typed into the location bar

\* Option::None for an Option<WebViewId>; identifiers start at 1.
NoView == 0

ViewIds == 1..MaxViews
WindowIds == 1..MaxWindows

Range(s) == {s[i] : i \in 1..Len(s)}

\* The process has not panicked; otherwise panicked holds the message.
NoPanic == "none"
AssertActivate == "assertion failed: self.creation_order.contains(&id_to_activate)"
ExpectIndex == "Tried to activate an unknown WebView"
ExpectWindow == "Looking for unexpected WebView"

(***************************************************************************)
(* Text: a string is a sequence of one-character strings.                  *)
(***************************************************************************)
LowerCase == <<"a","b","c","d","e","f","g","h","i","j","k","l","m",
               "n","o","p","q","r","s","t","u","v","w","x","y","z">>
UpperCase == <<"A","B","C","D","E","F","G","H","I","J","K","L","M",
               "N","O","P","Q","R","S","T","U","V","W","X","Y","Z">>
Digits == {"0","1","2","3","4","5","6","7","8","9"}
Letters == Range(LowerCase) \cup Range(UpperCase)

ToLower(c) ==
    IF c \in Range(UpperCase)
    THEN LowerCase[CHOOSE i \in 1..Len(UpperCase) : UpperCase[i] = c]
    ELSE c

LowerStr(s) == [i \in 1..Len(s) |-> ToLower(s[i])]

StartsWith(s, p) == Len(s) >= Len(p) /\ SubSeq(s, 1, Len(p)) = p

Contains(s, c) == c \in Range(s)

\* Index of the first element of s that is in set cs, or Len(s) + 1.
FirstOf(s, cs) ==
    IF \E i \in 1..Len(s) : s[i] \in cs
    THEN CHOOSE i \in 1..Len(s) : s[i] \in cs /\ \A j \in 1..(i - 1) : s[j] \notin cs
    ELSE Len(s) + 1

RECURSIVE TrimStart(_)
TrimStart(s) == IF s # <<>> /\ Head(s) = " " THEN TrimStart(Tail(s)) ELSE s

RECURSIVE TrimEnd(_)
TrimEnd(s) ==
    IF s # <<>> /\ s[Len(s)] = " " THEN TrimEnd(SubSeq(s, 1, Len(s) - 1)) ELSE s

\* str::trim
Trim(s) == TrimEnd(TrimStart(s))

\* Number of pieces of s.split(c): one more than the occurrences of c.
SplitCount(s, c) == Cardinality({i \in 1..Len(s) : s[i] = c}) + 1

\* str::replace("%s", by): every occurrence of the two-character token.
RECURSIVE ReplaceToken(_, _)
ReplaceToken(s, by) ==
    IF s = <<>> THEN <<>>
    ELSE IF StartsWith(s, <<"%", "s">>)
         THEN by \o ReplaceToken(SubSeq(s, 3, Len(s)), by)
         ELSE <<Head(s)>> \o ReplaceToken(Tail(s), by)

(***************************************************************************)
(* ServoUrl::parse, as the resolver uses it: the address parser of the     *)
(* url crate for ASCII text without credentials, numeric hosts, ports      *)
(* above 65535 and percent-escapes in the input.  It covers the scheme,    *)
(* the authority, the removal of dot segments from a path, the default     *)
(* path of a special scheme and the percent-encoding of a space.  A result *)
(* is [ok, url]; ok = FALSE is the Err of the parser.                      *)
(***************************************************************************)
ParseFail == [ok |-> FALSE, url |-> <<>>]
ParseOk(u) == [ok |-> TRUE, url |-> u]

SchemeChars == Letters \cup Digits \cup {"+", "-", "."}

HttpsScheme == <<"h","t","t","p","s">>
HttpScheme == <<"h","t","t","p">>
FileScheme == <<"f","i","l","e">>
SpecialSchemes == {HttpsScheme, HttpScheme, FileScheme,
                   <<"w","s">>, <<"w","s","s">>, <<"f","t","p">>}

\* Code points a host of a special scheme may not contain.
ForbiddenHost == {" ", "#", "/", ":", "<", ">", "?", "@", "[", "\\", "]", "^", "|", "%"}

\* Code points the host of any other scheme may not contain.
ForbiddenOpaqueHost == ForbiddenHost \ {"%"}

HasScheme(s) ==
    /\ s # <<>>
    /\ s[1] \in Letters
    /\ FirstOf(s, {":"}) <= Len(s)
    /\ \A j \in 2..(FirstOf(s, {":"}) - 1) : s[j] \in SchemeChars

RECURSIVE DropSlashes(_)
DropSlashes(s) ==
    IF s # <<>> /\ Head(s) \in {"/", "\\"} THEN DropSlashes(Tail(s)) ELSE s

\* Percent-encoding of a path, a query or a fragment: a space is written
\* %20.
RECURSIVE EncodeSpaces(_)
EncodeSpaces(s) ==
    IF s = <<>> THEN <<>>
    ELSE (IF Head(s) = " " THEN <<"%", "2", "0">> ELSE <<Head(s)>>)
         \o EncodeSpaces(Tail(s))

\* The characters that end a segment of a path: a backslash is a separator
\* in a special scheme only.
Separators(scheme) == IF scheme \in SpecialSchemes THEN {"/", "\\"} ELSE {"/"}

\* A drive letter at the head of the path of a file address is never
\* popped.
DriveLetter(seg) == Len(seg) = 2 /\ seg[1] \in Letters /\ seg[2] = ":"

\* The path, a sequence of segments, without its last segment.
Shorten(scheme, path) ==
    IF path = << >> THEN path
    ELSE IF scheme = FileScheme /\ Len(path) = 1 /\ DriveLetter(path[1]) THEN path
    ELSE SubSeq(path, 1, Len(path) - 1)

\* The path after segment seg ended; last says that the text ended with it.
FinishSegment(scheme, path, seg, last) ==
    IF seg = <<".", ".">>
    THEN (IF last THEN Append(Shorten(scheme, path), << >>) ELSE Shorten(scheme, path))
    ELSE IF seg = <<".">>
    THEN (IF last THEN Append(path, << >>) ELSE path)
    ELSE Append(path, seg)

\* The path state of the parser: path holds the segments read so far, seg
\* the segment being read, rest the text still to read.
RECURSIVE PathLoop(_, _, _, _)
PathLoop(scheme, path, seg, rest) ==
    IF rest = << >> THEN FinishSegment(scheme, path, seg, TRUE)
    ELSE IF Head(rest) \in Separators(scheme)
    THEN PathLoop(scheme, FinishSegment(scheme, path, seg, FALSE), << >>, Tail(rest))
    ELSE PathLoop(scheme, path, Append(seg, Head(rest)), Tail(rest))

RECURSIVE JoinPath(_)
JoinPath(path) ==
    IF path = << >> THEN << >>
    ELSE <<"/">> \o Head(path) \o JoinPath(Tail(path))

\* The serialised path of text, which is empty or starts with a separator.
NormalPath(scheme, text) ==
    EncodeSpaces(JoinPath(PathLoop(scheme, << >>, << >>,
                                   IF text = << >> THEN text ELSE Tail(text))))

\* What follows the authority: the path up to the first ? or #, then the
\* query and the fragment.  A special scheme has the path / at least.
SerializeTail(scheme, tail) ==
    (IF FirstOf(tail, {"?", "#"}) = 1 /\ scheme \notin SpecialSchemes
     THEN << >>
     ELSE NormalPath(scheme, SubSeq(tail, 1, FirstOf(tail, {"?", "#"}) - 1)))
    \o EncodeSpaces(SubSeq(tail, FirstOf(tail, {"?", "#"}), Len(tail)))

\* The address of a special scheme, from its host, port and what follows.
SerializeSpecial(scheme, host, port, tail) ==
    IF scheme # FileScheme /\ host = << >>
    THEN ParseFail
    ELSE IF \E i \in 1..Len(host) : host[i] \in ForbiddenHost
    THEN ParseFail
    ELSE IF \E i \in 1..Len(port) : port[i] \notin Digits
    THEN ParseFail
    ELSE ParseOk(scheme \o <<":", "/", "/">> \o LowerStr(host)
                 \o (IF port = << >> THEN << >> ELSE <<":">> \o port)
                 \o SerializeTail(scheme, tail))

\* The authority is split at its first colon into host and port.
ParseAuthority(scheme, authority, tail) ==
    SerializeSpecial(scheme,
                     SubSeq(authority, 1, FirstOf(authority, {":"}) - 1),
                     SubSeq(authority, FirstOf(authority, {":"}) + 1, Len(authority)),
                     tail)

\* The authority ends at the first separator of path, query or fragment.
ParseAfterSlashes(scheme, s) ==
    ParseAuthority(scheme,
                   SubSeq(s, 1, FirstOf(s, {"/", "\\", "?", "#"}) - 1),
                   SubSeq(s, FirstOf(s, {"/", "\\", "?", "#"}), Len(s)))

ParseSpecial(scheme, rest) ==
    ParseAfterSlashes(scheme,
        IF scheme = FileScheme
        THEN (IF StartsWith(rest, <<"/", "/">>) THEN SubSeq(rest, 3, Len(rest)) ELSE rest)
        ELSE DropSlashes(rest))

\* The address of another scheme that has an authority: the host is kept
\* as it is written and the path may be empty.
SerializeOpaqueHost(scheme, authority, host, port, tail) ==
    IF host = << >> /\ Contains(authority, ":")
    THEN ParseFail
    ELSE IF \E i \in 1..Len(host) : host[i] \in ForbiddenOpaqueHost
    THEN ParseFail
    ELSE IF \E i \in 1..Len(port) : port[i] \notin Digits
    THEN ParseFail
    ELSE ParseOk(scheme \o <<":", "/", "/">> \o host
                 \o (IF port = << >> THEN << >> ELSE <<":">> \o port)
                 \o (IF tail = << >> THEN << >> ELSE SerializeTail(scheme, tail)))

ParseOpaqueAuthority(scheme, authority, tail) ==
    SerializeOpaqueHost(scheme, authority,
                        SubSeq(authority, 1, FirstOf(authority, {":"}) - 1),
                        SubSeq(authority, FirstOf(authority, {":"}) + 1, Len(authority)),
                        tail)

\* A scheme that is not special: an authority after //, a path after /, and
\* otherwise an opaque path, which is kept as it is written.
ParseNonSpecial(scheme, rest) ==
    IF StartsWith(rest, <<"/", "/">>)
    THEN ParseOpaqueAuthority(
             scheme,
             SubSeq(rest, 3, FirstOf(SubSeq(rest, 3, Len(rest)), {"/", "?", "#"}) + 1),
             SubSeq(rest, FirstOf(SubSeq(rest, 3, Len(rest)), {"/", "?", "#"}) + 2,
                    Len(rest)))
    ELSE IF StartsWith(rest, <<"/">>)
    THEN ParseOk(scheme \o <<":">> \o SerializeTail(scheme, rest))
    ELSE ParseOk(scheme \o <<":">>
                 \o SubSeq(rest, 1, FirstOf(rest, {"?", "#"}) - 1)
                 \o EncodeSpaces(SubSeq(rest, FirstOf(rest, {"?", "#"}), Len(rest))))

ParseScheme(scheme, rest) ==
    IF scheme \in SpecialSchemes
    THEN ParseSpecial(scheme, rest)
    ELSE ParseNonSpecial(scheme, rest)

ParseTrimmed(s) ==
    IF ~HasScheme(s) THEN ParseFail
    ELSE ParseScheme(LowerStr(SubSeq(s, 1, FirstOf(s, {":"}) - 1)),
                     SubSeq(s, FirstOf(s, {":"}) + 1, Len(s)))

ParseUrl(input) == ParseTrimmed(Trim(input))

\* Option::or_else
OrElse(a, b) == IF a.ok THEN a ELSE b

(***************************************************************************)
(* parser.rs: the location-bar resolver.                                   *)
(***************************************************************************)
\* The search-page template of ServoShellPreferences::default, shortened to
\* the host "s" so that the model's addresses stay short:  https://s/?q=%s
SearchPage == <<"h","t","t","p","s",":","/","/","s","/","?","q","=","%","s">>

\* servo::is_reg_domain, the public-suffix test of the engine: a name is
\* registrable when it is one label of letters, digits and hyphens followed
\* by a public suffix.  The suffixes are those of the names in the
\* resolver's tests.  A name with a leading or a trailing dot is taken as
\* not registrable.
PublicSuffixes == {<<"m","d">>, <<"l","o","l">>}

is_reg_domain(s) ==
    /\ FirstOf(s, {"."}) > 1
    /\ FirstOf(s, {"."}) < Len(s)
    /\ \A i \in 1..(FirstOf(s, {"."}) - 1) : s[i] \in Letters \cup Digits \cup {"-"}
    /\ LowerStr(SubSeq(s, FirstOf(s, {"."}) + 1, Len(s))) \in PublicSuffixes

try_as_file(request) ==
    IF StartsWith(request, <<"/">>)
    THEN ParseUrl(<<"f","i","l","e",":","/","/">> \o request)
    ELSE ParseFail

\* A heuristic that knows the dot clause only.
is_domain_like_DotOnly(s) ==
    ~Contains(s, " ") /\ ~StartsWith(s, <<".">>) /\ SplitCount(s, ".") > 1

\* A heuristic that knows the '/' clause only.
is_domain_like_SlashOnly(s) == ~StartsWith(s, <<"/">>) /\ Contains(s, "/")

\* A heuristic whose second clause does not look at the first character.
is_domain_like_AnyDot(s) ==
    \/ ~StartsWith(s, <<"/">>) /\ Contains(s, "/")
    \/ (~Contains(s, " ") /\ SplitCount(s, ".") > 1)

is_domain_like(s) ==
    \/ ~StartsWith(s, <<"/">>) /\ Contains(s, "/")
    \/ (~Contains(s, " ") /\ ~StartsWith(s, <<".">>) /\ SplitCount(s, ".") > 1)

try_as_domain(request) ==
    IF (~Contains(request, " ") /\ is_reg_domain(request)) \/ is_domain_like(request)
    THEN ParseUrl(<<"h","t","t","p","s",":","/","/">> \o request)
    ELSE ParseFail

\* A search step that also takes the empty request.
try_as_search_page_NoEmptyCheck(request, searchpage) ==
    ParseUrl(ReplaceToken(searchpage, request))

try_as_search_page(request, searchpage) ==
    IF request = <<>> THEN ParseFail
    ELSE ParseUrl(ReplaceToken(searchpage, request))

\* A chain in which the first step that matches the request decides, with
\* an address or with none.
ResolveRequest_FirstMatch(request, searchpage) ==
    IF ParseUrl(request).ok THEN ParseUrl(request)
    ELSE IF StartsWith(request, <<"/">>) THEN try_as_file(request)
    ELSE IF (~Contains(request, " ") /\ is_reg_domain(request)) \/ is_domain_like(request)
    THEN try_as_domain(request)
    ELSE try_as_search_page(request, searchpage)

\* A chain that tries the domain step before the parse of the request.
ResolveRequest_DomainFirst(request, searchpage) ==
    OrElse(try_as_domain(request),
    OrElse(ParseUrl(request),
    OrElse(try_as_file(request),
           try_as_search_page(request, searchpage))))

\* The chain of or_else over the trimmed request.
ResolveRequest(request, searchpage) ==
    OrElse(ParseUrl(request),
    OrElse(try_as_file(request),
    OrElse(try_as_domain(request),
           try_as_search_page(request, searchpage))))

location_bar_input_to_url(input, searchpage) ==
    ResolveRequest(Trim(input), searchpage)

\* The resolver has not been called.
NotResolved == [ok |-> FALSE, url |-> <<"?">>]

\* The texts of the resolver's tests.
Examples ==
    {<<"d","a","t","a",":","t","e","x","t","/","h","t","m","l",",","a">>,
     <<"R","E","A","D","M","E",".","m","d">>,
     <<"n","i","c",".","m","d">>,
     <<"n","i","c",".","m","d","/","r","o">>,
     <<"f","o","o",".","t","x","t">>,
     <<"d","r","a","g","o","n","f","r","u","i","t">>,
     <<"/","d","e","v","/","n","u","l","l">>,
     <<"l","e","a","h",".","c","h","r","o","m","e","b","o","o","k","s",".","l","o","l",".">>,
     <<".","l","e","a","h",".","c","h","r","o","m","e","b","o","o","k","s",".","l","o","l">>,
     <<"3",".","5"," ","k","g"," ","i","n"," ","l","b">>,
     <<"f","o","o","/","b","a","r">>}

\* The characters of the other texts: a lower-case and an upper-case
\* letter, the dot, the space, the two separators the resolver and the
\* parser look for, and a character no host may contain.
Alphabet == {"a", "A", ".", " ", "/", ":", "^"}

Inputs == Examples \cup UNION {[1..n -> Alphabet] : n \in 0..MaxLen}

\* The search-page templates: the default one, one that puts the text in
\* the path, and one that is the bare token.
PathPage == <<"h","t","t","p","s",":","/","/","t","/","%","s">>

Templates == {SearchPage, PathPage, <<"%", "s">>}

(***************************************************************************)
(* running_app_state.rs: WebViewCollection.  webviews maps an identifier   *)
(* to the handle of the view, of which the model keeps what show / hide /  *)
(* focus / blur set; creation_order is the Vec of identifiers.  Each       *)
(* operation yields the collection after it, the calls it made on views    *)
(* and whether it panicked.                                                *)
(***************************************************************************)
EmptyCollection ==
    [webviews |-> << >>, creation_order |-> << >>, active_webview_id |-> NoView]

\* The handle the engine returns for a freshly built view.
NewWebView == [shown |-> FALSE, focused |-> FALSE]

Call(op, id) == [op |-> op, id |-> id, arg |-> << >>]
CallWith(op, id, arg) == [op |-> op, id |-> id, arg |-> arg]

\* The effect of one call on the handles.
ApplyCall(webviews, call) ==
    IF call.id \notin DOMAIN webviews THEN webviews
    ELSE IF call.op = "show" THEN [webviews EXCEPT ![call.id].shown = TRUE]
    ELSE IF call.op = "hide" THEN [webviews EXCEPT ![call.id].shown = FALSE]
    ELSE IF call.op = "focus" THEN [webviews EXCEPT ![call.id].focused = TRUE]
    ELSE IF call.op = "blur" THEN [webviews EXCEPT ![call.id].focused = FALSE]
    ELSE webviews

RECURSIVE ApplyCalls(_, _)
ApplyCalls(webviews, cs) ==
    IF cs = << >> THEN webviews
    ELSE ApplyCalls(ApplyCall(webviews, Head(cs)), Tail(cs))

Collection_add(c, id) ==
    [c EXCEPT !.creation_order = Append(c.creation_order, id),
              !.webviews = (id :> NewWebView) @@ c.webviews]

Collection_contains(c, id) == id \in DOMAIN c.webviews

Collection_is_empty(c) == DOMAIN c.webviews = {}

\* Option<&WebView> of the active view, as its identifier.
Collection_active(c) ==
    IF c.active_webview_id # NoView /\ c.active_webview_id \in DOMAIN c.webviews
    THEN c.active_webview_id
    ELSE NoView

Collection_all_in_creation_order(c) ==
    SelectSeq(c.creation_order, LAMBDA id : id \in DOMAIN c.webviews)

\* A loop that shows and focuses the view to activate and leaves the other
\* views alone.
ActivateLoop_ShowOnly(order, id_to_activate) ==
    IF id_to_activate \in Range(order)
    THEN <<Call("show", id_to_activate), Call("focus", id_to_activate)>>
    ELSE << >>

\* The loop of activate_webview: the calls, view by view.
RECURSIVE ActivateLoop(_, _)
ActivateLoop(order, id_to_activate) ==
    IF order = << >> THEN << >>
    ELSE (IF id_to_activate = Head(order)
          THEN <<Call("show", Head(order)), Call("focus", Head(order))>>
          ELSE <<Call("hide", Head(order)), Call("blur", Head(order))>>)
         \o ActivateLoop(Tail(order), id_to_activate)

\* The collection after the loop made the calls cs.
Activated(c, id_to_activate, cs) ==
    [coll |-> [c EXCEPT !.active_webview_id = id_to_activate,
                        !.webviews = ApplyCalls(c.webviews, cs)],
     calls |-> cs,
     panicked |-> NoPanic]

\* An activate_webview that stores the identifier before its assert!.
Collection_activate_webview_StoreFirst(c, id_to_activate) ==
    IF id_to_activate \notin Range(c.creation_order)
    THEN [coll |-> [c EXCEPT !.active_webview_id = id_to_activate],
          calls |-> << >>, panicked |-> AssertActivate]
    ELSE Activated(c, id_to_activate,
                   ActivateLoop(Collection_all_in_creation_order(c), id_to_activate))

Collection_activate_webview(c, id_to_activate) ==
    IF id_to_activate \notin Range(c.creation_order)
    THEN [coll |-> c, calls |-> << >>, panicked |-> AssertActivate]
    ELSE Activated(c, id_to_activate,
                   ActivateLoop(Collection_all_in_creation_order(c), id_to_activate))

\* index is the usize of the caller, counted from 0.
Collection_activate_webview_by_index(c, index) ==
    IF index + 1 > Len(c.creation_order)
    THEN [coll |-> c, calls |-> << >>, panicked |-> ExpectIndex]
    ELSE Collection_activate_webview(c, c.creation_order[index + 1])

\* The Option<WebView> that remove returns is Some.
WithRemoved(r, removed) ==
    [coll |-> r.coll, calls |-> r.calls, panicked |-> r.panicked, removed |-> removed]

\* A remove that forgets the active view: active_webview_id keeps naming it.
RemoveActive_KeepsActive(c, id, was_active, removed) ==
    [coll |-> c, calls |-> << >>, panicked |-> NoPanic, removed |-> removed]

\* A remove that clears active_webview_id and activates no other view.
RemoveActive_ClearsOnly(c, id, was_active, removed) ==
    [coll |-> IF was_active THEN [c EXCEPT !.active_webview_id = NoView] ELSE c,
     calls |-> << >>, panicked |-> NoPanic, removed |-> removed]

\* A remove that activates the newest remaining view whichever view left.
RemoveActive_Always(c, id, was_active, removed) ==
    IF c.creation_order # << >>
    THEN WithRemoved(
             Collection_activate_webview(c, c.creation_order[Len(c.creation_order)]),
             removed)
    ELSE [coll |-> [c EXCEPT !.active_webview_id = NoView], calls |-> << >>,
          panicked |-> NoPanic, removed |-> removed]

\* A remove that re-activates the oldest remaining view instead of the newest.
RemoveActive_Oldest(c, id, was_active, removed) ==
    IF was_active
    THEN IF c.creation_order # << >>
         THEN WithRemoved(
                  Collection_activate_webview(
                      [c EXCEPT !.active_webview_id = NoView],
                      c.creation_order[1]),
                  removed)
         ELSE [coll |-> [c EXCEPT !.active_webview_id = NoView], calls |-> << >>,
               panicked |-> NoPanic, removed |-> removed]
    ELSE [coll |-> c, calls |-> << >>, panicked |-> NoPanic, removed |-> removed]

\* The tail of remove: c is the collection without the view.
RemoveActive(c, id, was_active, removed) ==
    IF was_active
    THEN IF c.creation_order # << >>
         THEN WithRemoved(
                  Collection_activate_webview(
                      [c EXCEPT !.active_webview_id = NoView],
                      c.creation_order[Len(c.creation_order)]),
                  removed)
         ELSE [coll |-> [c EXCEPT !.active_webview_id = NoView], calls |-> << >>,
               panicked |-> NoPanic, removed |-> removed]
    ELSE [coll |-> c, calls |-> << >>, panicked |-> NoPanic, removed |-> removed]

\* A remove that takes the view out of creation_order and leaves it in the
\* table of views.
Collection_remove_OrderOnly(c, id) ==
    RemoveActive(
        [c EXCEPT !.creation_order = SelectSeq(@, LAMBDA webview_id : webview_id # id)],
        id,
        c.active_webview_id = id,
        id \in DOMAIN c.webviews)

\* A remove that takes the view out of the table of views and leaves it in
\* creation_order.
Collection_remove_TableOnly(c, id) ==
    RemoveActive(
        [c EXCEPT !.webviews = [v \in (DOMAIN @) \ {id} |-> @[v]]],
        id,
        c.active_webview_id = id,
        id \in DOMAIN c.webviews)

Collection_remove(c, id) ==
    RemoveActive(
        [c EXCEPT !.creation_order = SelectSeq(@, LAMBDA webview_id : webview_id # id),
                  !.webviews = [v \in (DOMAIN @) \ {id} |-> @[v]]],
        id,
        c.active_webview_id = id,
        id \in DOMAIN c.webviews)

(***************************************************************************)
(* window.rs: ServoShellWindow.  commands is the inbound buffer the user   *)
(* interface pushes to and take_user_interface_commands drains.            *)
(***************************************************************************)
NewWindow ==
    [webview_collection |-> EmptyCollection,
     close_scheduled |-> FALSE,
     needs_update |-> FALSE,
     needs_repaint |-> FALSE,
     pending_favicon_loads |-> << >>,
     commands |-> << >>]

Window_set_needs_update(w) == [w EXCEPT !.needs_update = TRUE]

Window_set_needs_repaint(w) == [w EXCEPT !.needs_repaint = TRUE]

Window_schedule_close(w) == [w EXCEPT !.close_scheduled = TRUE]

\* A should_close that only looks at the collection.
Window_should_close_EmptyOnly(w) == Collection_is_empty(w.webview_collection)

\* A should_close that looks at close_scheduled alone.
Window_should_close_ScheduledOnly(w) == w.close_scheduled

Window_should_close(w) ==
    Collection_is_empty(w.webview_collection) \/ w.close_scheduled

Window_contains_webview(w, id) == Collection_contains(w.webview_collection, id)

Window_active_webview(w) == Collection_active(w.webview_collection)

Window_add_webview(w, id) ==
    Window_set_needs_repaint(Window_set_needs_update(
        [w EXCEPT !.webview_collection = Collection_add(@, id)]))

\* A window operation yields the window after it, the calls and the panic.
WinResult(w, cs, p) == [win |-> w, calls |-> cs, panicked |-> p]

\* The collection is changed in place; set_needs_update is reached only
\* when the collection operation did not panic.
Window_after_activate(w, r) ==
    IF r.panicked # NoPanic
    THEN WinResult([w EXCEPT !.webview_collection = r.coll], r.calls, r.panicked)
    ELSE WinResult(Window_set_needs_update([w EXCEPT !.webview_collection = r.coll]),
                   r.calls, NoPanic)

Window_activate_webview(w, webview_id) ==
    Window_after_activate(w, Collection_activate_webview(w.webview_collection, webview_id))

Window_activate_webview_by_index(w, index_to_activate) ==
    Window_after_activate(
        w, Collection_activate_webview_by_index(w.webview_collection, index_to_activate))

Window_create_toplevel_webview(w, id) == Window_add_webview(w, id)

\* The engine call that built the view comes first.
Created(r, id) == WinResult(r.win, <<Call("create", id)>> \o r.calls, r.panicked)

\* A creation that adds the view and does not activate it.
Window_create_and_activate_toplevel_webview_CreateOnly(w, id) ==
    Created(WinResult(Window_create_toplevel_webview(w, id), << >>, NoPanic), id)

Window_create_and_activate_toplevel_webview(w, id) ==
    Created(Window_activate_webview(Window_create_toplevel_webview(w, id), id), id)

\* The tail of close_webview: r is what remove returned.
Window_after_remove(w, r) ==
    IF ~r.removed
    THEN WinResult([w EXCEPT !.webview_collection = r.coll], r.calls, r.panicked)
    ELSE WinResult(Window_set_needs_repaint(Window_set_needs_update(
                       [w EXCEPT !.webview_collection = r.coll])),
                   r.calls, r.panicked)

Window_close_webview(w, webview_id) ==
    Window_after_remove(w, Collection_remove(w.webview_collection, webview_id))

Window_notify_favicon_changed(w, id) ==
    Window_set_needs_repaint(
        [w EXCEPT !.pending_favicon_loads = Append(@, id)])

\* A take that hands the list over and leaves it in place.
Window_take_pending_favicon_loads_Clones(w) ==
    [win |-> w, loads |-> w.pending_favicon_loads]

\* std::mem::take on the list: it is handed over and left empty.
Window_take_pending_favicon_loads(w) ==
    [win |-> [w EXCEPT !.pending_favicon_loads = << >>],
     loads |-> w.pending_favicon_loads]

Window_show_embedder_control(w) ==
    Window_set_needs_repaint(Window_set_needs_update(w))

Window_hide_embedder_control(w) ==
    Window_set_needs_repaint(Window_set_needs_update(w))

\* A flag step that reads needs_repaint without taking it.
Window_update_and_request_repaint_if_necessary_KeepsRepaint(w, refresh) ==
    [win |-> [w EXCEPT !.needs_update = FALSE],
     asked |-> w.needs_update,
     repaint |-> (w.needs_update /\ refresh) \/ w.needs_repaint]

\* refresh is what update_user_interface_state answers when it is asked.
Window_update_and_request_repaint_if_necessary(w, refresh) ==
    [win |-> [w EXCEPT !.needs_update = FALSE, !.needs_repaint = FALSE],
     asked |-> w.needs_update,
     repaint |-> (w.needs_update /\ refresh) \/ w.needs_repaint]

(***************************************************************************)
(* app.rs: the commands of the user interface and their application.       *)
(***************************************************************************)
Cmd(kind, location, id) == [kind |-> kind, location |-> location, id |-> id]

\* The location texts the model's user types: one that is empty once it is
\* trimmed, and a dotted name.
GoLocations == {<<" ">>, <<"a", ".", "b">>}

Commands ==
    {Cmd("Go", l, NoView) : l \in GoLocations}
    \cup {Cmd(k, << >>, NoView) : k \in {"Back", "Forward", "Reload", "NewWebView"}}
    \cup {Cmd("CloseWebView", << >>, id) : id \in ViewIds}

\* One arm of the match of handle_interface_commands_for_window.  st holds
\* the window, the calls made so far and the next view identifier of the
\* engine; stop is the break out of the for loop.
ArmResult_Prepends(st, w, cs, next, stop) ==
    [win |-> w, calls |-> cs \o st.calls, next |-> next, stop |-> stop]

ArmResult(st, w, cs, next, stop) ==
    [win |-> w, calls |-> st.calls \o cs, next |-> next, stop |-> stop]

\* Go: url is what the resolver returned, active the window's active view.
GoArm(st, url, active) ==
    IF ~url.ok
    THEN ArmResult(st, Window_set_needs_update(st.win), << >>, st.next, TRUE)
    ELSE IF active # NoView
    THEN ArmResult(st, Window_set_needs_update(st.win),
                   <<CallWith("load", active, url.url)>>, st.next, FALSE)
    ELSE ArmResult(st, Window_set_needs_update(st.win), << >>, st.next, FALSE)

\* The argument of go_back and go_forward: one entry of the history.
OneEntry == <<"1">>

\* An arm that calls the view without looking for an active one.
CallActiveArm_NoCheck(st, w, op, arg, active) ==
    ArmResult(st, w, <<CallWith(op, active, arg)>>, st.next, FALSE)

\* An arm that sets needs_update whatever the command.
CallActiveArm_SetsUpdate(st, w, op, arg, active) ==
    IF active # NoView
    THEN ArmResult(st, Window_set_needs_update(w), <<CallWith(op, active, arg)>>,
                   st.next, FALSE)
    ELSE ArmResult(st, Window_set_needs_update(w), << >>, st.next, FALSE)

\* Back, Forward and Reload: one call on the active view, if there is one.
CallActiveArm(st, w, op, arg, active) ==
    IF active # NoView
    THEN ArmResult(st, w, <<CallWith(op, active, arg)>>, st.next, FALSE)
    ELSE ArmResult(st, w, << >>, st.next, FALSE)

\* NewWebView and CloseWebView: r is what the window operation returned.
WindowArm(st, r, next) == ArmResult(st, r.win, r.calls, next, FALSE)

HandleCommand(st, event) ==
    IF event.kind = "Go"
    THEN GoArm(st, location_bar_input_to_url(event.location, SearchPage),
               Window_active_webview(st.win))
    ELSE IF event.kind = "Back"
    THEN CallActiveArm(st, st.win, "go_back", OneEntry, Window_active_webview(st.win))
    ELSE IF event.kind = "Forward"
    THEN CallActiveArm(st, st.win, "go_forward", OneEntry, Window_active_webview(st.win))
    ELSE IF event.kind = "Reload"
    THEN CallActiveArm(st, Window_set_needs_update(st.win), "reload", << >>,
                       Window_active_webview(st.win))
    ELSE IF event.kind = "NewWebView"
    THEN WindowArm(st,
                   Window_create_and_activate_toplevel_webview(
                       Window_set_needs_update(st.win), st.next),
                   st.next + 1)
    ELSE \* CloseWebView(id)
         WindowArm(st,
                   Window_close_webview(Window_set_needs_update(st.win), event.id),
                   st.next)

\* The state of the loop after the arm of event returned r.
AfterArm(st, event, r) ==
    [win |-> r.win, calls |-> r.calls, next |-> r.next,
     applied |-> Append(st.applied, event), stop |-> r.stop]

\* The for loop over the drained commands.
RECURSIVE CommandLoop(_, _)
CommandLoop(st, commands) ==
    IF commands = << >> \/ st.stop THEN st
    ELSE CommandLoop(AfterArm(st, Head(commands), HandleCommand(st, Head(commands))),
                     Tail(commands))

handle_interface_commands_for_window(window, commands, next) ==
    CommandLoop([win |-> window, calls |-> << >>, next |-> next,
                 applied |-> << >>, stop |-> FALSE],
                commands)

\* A take that hands the buffer over and leaves it in place.
Window_take_user_interface_commands_Copies(w) ==
    [win |-> w, commands |-> w.commands]

\* take_user_interface_commands: the buffer is handed over and left empty.
Window_take_user_interface_commands(w) ==
    [win |-> [w EXCEPT !.commands = << >>], commands |-> w.commands]

(***************************************************************************)
(* running_app_state.rs: RunningAppState.                                  *)
(***************************************************************************)
\* The map after the insert of the window that r holds.
Inserted(wins, window_id, r) ==
    [wins |-> (window_id :> r.win) @@ wins, calls |-> r.calls]

\* An open_window whose first view takes the identifier of the view made
\* before it.
open_window_ReusesId(wins, window_id, webview_id) ==
    Inserted(wins, window_id,
             Window_create_and_activate_toplevel_webview(
                 NewWindow, IF webview_id > 1 THEN webview_id - 1 ELSE webview_id))

open_window(wins, window_id, webview_id) ==
    Inserted(wins, window_id,
             Window_create_and_activate_toplevel_webview(NewWindow, webview_id))

\* A scan that returns a window whether or not it holds the view, once
\* some window does.
maybe_window_for_webview_id_Any(wins, webview_id) ==
    IF \E w \in DOMAIN wins : Window_contains_webview(wins[w], webview_id)
    THEN DOMAIN wins
    ELSE {}

\* The windows the scan of maybe_window_for_webview_id can return: the map
\* is visited in no particular order and the first window that contains the
\* view is taken.
maybe_window_for_webview_id(wins, webview_id) ==
    {w \in DOMAIN wins : Window_contains_webview(wins[w], webview_id)}

\* retain of spin_event_loop.
\* A retain whose predicate is !window.should_close() alone.
RetainWindows_IgnoreExit(wins, exit) ==
    [w \in {x \in DOMAIN wins : ~Window_should_close(wins[x])} |-> wins[w]]

\* A retain that keeps every window.
RetainWindows_KeepsAll(wins, exit) == wins

RetainWindows(wins, exit) ==
    [w \in {x \in DOMAIN wins : ~exit /\ ~Window_should_close(wins[x])} |-> wins[w]]

NoBatch == [window |-> 0, commands |-> << >>]

\* Sum of the function f over the set S.
RECURSIVE SumOver(_, _)
SumOver(f, S) ==
    IF S = {} THEN 0
    ELSE LET w == CHOOSE x \in S : TRUE
         IN  f[w] + SumOver(f, S \ {w})

QueuedCommands(wins) ==
    SumOver([w \in DOMAIN wins |-> Len(wins[w].commands)], DOMAIN wins)

QueuedNewViews(wins) ==
    SumOver([w \in DOMAIN wins |->
                Len(SelectSeq(wins[w].commands, LAMBDA c : c.kind = "NewWebView"))],
            DOMAIN wins)

PendingFavicons(wins) ==
    SumOver([w \in DOMAIN wins |-> Len(wins[w].pending_favicon_loads)], DOMAIN wins)

\* The engine can hand out one more view identifier within the bound.
CanCreateView == next_webview_id + QueuedNewViews(windows) <= MaxViews

(***************************************************************************)
(* The state after App::new.                                               *)
(***************************************************************************)
AppInit ==
    /\ state = "Initializing"
    /\ windows = << >>
    /\ exit_scheduled = FALSE
    /\ pc = "idle"
    /\ pending = {}
    /\ ret = "none"
    /\ panicked = NoPanic
    /\ calls = << >>
    /\ batch = NoBatch
    /\ applied = << >>
    /\ refreshed = {}
    /\ repainted = {}
    /\ pruned = << >>
    /\ drains = << >>
    /\ pump = "none"
    /\ events_left = 0
    /\ next_webview_id = 1
    /\ next_window_id = 1
    /\ taken = << >>

\* The resolver is at rest while the application runs; it is called by the
\* Go arm with the template of the preferences.
Init ==
    /\ AppInit
    /\ typed = << >>
    /\ template = SearchPage
    /\ resolved = NotResolved

\* A guard that lets the pump through after shutdown.
IsRunning_NotInitializing == state # "Initializing"

\* let AppState::Running(state) = &self.state else { return .. }
IsRunning == state = "Running"

\* The host loop is between two events.
Idle == pc = "idle" /\ panicked = NoPanic

\* window_event / user_event: the handler returns at once unless the
\* application is Running; otherwise it lets the window handle the event
\* and then pumps.  pc = "event" is the handler before its pump.
InHandler == pc \in {"idle", "event"} /\ panicked = NoPanic /\ IsRunning

obs == <<batch, applied, refreshed, repainted>>

(***************************************************************************)
(* Signals of the host loop and calls of the user interface between ticks. *)
(***************************************************************************)
\* The window map and the calls that open_window leaves.
Opened(r) == windows' = r.wins /\ calls' = r.calls

\* ApplicationHandler::resumed: App::init builds a fresh RunningAppState
\* with one window holding one activated view.
Resumed ==
    /\ Idle
    /\ next_window_id <= MaxWindows
    /\ CanCreateView
    /\ Opened(open_window(<< >>, next_window_id, next_webview_id))
    /\ exit_scheduled' = FALSE
    /\ state' = "Running"
    /\ next_window_id' = next_window_id + 1
    /\ next_webview_id' = next_webview_id + 1
    /\ ret' = "none"
    /\ pump' = "none"
    /\ pruned' = << >>
    /\ UNCHANGED <<taken, resolver, drains, pc, pending, panicked, obs, events_left>>

\* RunningAppState::open_window for a further platform window.
OpenWindow ==
    /\ Idle
    /\ IsRunning
    /\ pc' = "event"
    /\ next_window_id <= MaxWindows
    /\ CanCreateView
    /\ Opened(open_window(windows, next_window_id, next_webview_id))
    /\ next_window_id' = next_window_id + 1
    /\ next_webview_id' = next_webview_id + 1
    /\ UNCHANGED <<taken, resolver, drains, pump, pruned, state, exit_scheduled, pending, ret, panicked, obs, events_left>>

\* The user interface pushes a command to a window's buffer: a handler
\* either pushes a burst of commands to its window or makes one of the calls
\* below.  The close button of a tab (browser_tab.rs) names a view of the
\* window.
PushCommand(w, cmd) ==
    /\ InHandler
    /\ w \in DOMAIN windows
    /\ pc = "event" => windows[w].commands # << >>
    /\ cmd.kind = "CloseWebView" => Window_contains_webview(windows[w], cmd.id)
    /\ pc' = "event"
    /\ QueuedCommands(windows) < MaxQueue
    /\ cmd.kind = "NewWebView" => next_webview_id + QueuedNewViews(windows) <= MaxViews
    /\ windows' = [windows EXCEPT ![w].commands = Append(@, cmd)]
    /\ calls' = << >>
    /\ UNCHANGED <<taken, resolver, drains, pump, pruned, state, exit_scheduled, pending, ret, panicked, obs, events_left,
                   next_webview_id, next_window_id>>

\* A window operation called from the user interface; a panic aborts the
\* process with the window as it was.
WindowCall(w, r) ==
    /\ windows' = [windows EXCEPT ![w] = r.win]
    /\ calls' = r.calls
    /\ panicked' = r.panicked
    /\ pc' = "event"
    /\ UNCHANGED <<taken, resolver, drains, pump, pruned, state, exit_scheduled, pending, ret, obs, events_left,
                   next_webview_id, next_window_id>>

\* ServoShellWindow::activate_webview (a click on a tab).
ActivateWebview(w, id) ==
    /\ Idle
    /\ IsRunning
    /\ w \in DOMAIN windows
    /\ WindowCall(w, Window_activate_webview(windows[w], id))

\* ServoShellWindow::activate_webview_by_index.
ActivateWebviewByIndex(w, index) ==
    /\ Idle
    /\ IsRunning
    /\ w \in DOMAIN windows
    /\ WindowCall(w, Window_activate_webview_by_index(windows[w], index))

\* ServoShellWindow::schedule_close.
ScheduleClose(w) ==
    /\ Idle
    /\ IsRunning
    /\ w \in DOMAIN windows
    /\ WindowCall(w, WinResult(Window_schedule_close(windows[w]), << >>, NoPanic))

\* ServoShellWindow::take_pending_favicon_loads, called by the user
\* interface of the window when it loads the favicons.
TakePendingFaviconLoads(w) ==
    /\ Idle
    /\ IsRunning
    /\ w \in DOMAIN windows
    /\ windows' = [windows EXCEPT ![w] = Window_take_pending_favicon_loads(windows[w]).win]
    /\ taken' = Window_take_pending_favicon_loads(windows[w]).loads
    /\ pc' = "event"
    /\ UNCHANGED <<resolver, drains, pump, pruned, state, exit_scheduled, pending, ret,
                   panicked, calls, obs, events_left, next_webview_id, next_window_id>>

\* RunningAppState::schedule_exit.
ScheduleExit ==
    /\ Idle
    /\ IsRunning
    /\ exit_scheduled' = TRUE
    /\ pc' = "event"
    /\ calls' = << >>
    /\ UNCHANGED <<taken, resolver, drains, pump, pruned, state, windows, pending, ret, panicked, obs, events_left,
                   next_webview_id, next_window_id>>

(***************************************************************************)
(* App::pump_servo_event_loop, step by step.  The host thread runs one     *)
(* pump at a time; pc is its position in it.                               *)
(***************************************************************************)
\* The let-else at the head of the pump: not Running, return false.
PumpNotRunning ==
    /\ Idle
    /\ ~IsRunning
    /\ ret' = "false"
    /\ pump' = "not_running"
    /\ calls' = << >>
    /\ UNCHANGED <<taken, resolver, drains, pruned, state, windows, exit_scheduled, pc, pending, panicked, obs,
                   events_left, next_webview_id, next_window_id>>

\* The clone of the window list: the windows the loop will visit.
Snapshot_SkipsOne(wins) ==
    IF DOMAIN wins = {} THEN {}
    ELSE DOMAIN wins \ {CHOOSE w \in DOMAIN wins : TRUE}

Snapshot(wins) == DOMAIN wins

\* foreach_window_and_interface_commands clones the window list.
PumpStart ==
    /\ InHandler
    /\ pc' = "commands"
    /\ pending' = Snapshot(windows)
    /\ drains' = [w \in Snapshot(windows) |-> 0]
    /\ ret' = "none"
    /\ calls' = << >>
    /\ batch' = NoBatch
    /\ applied' = << >>
    /\ refreshed' = {}
    /\ repainted' = {}
    /\ pump' = "none"
    /\ pruned' = << >>
    /\ taken' = << >>
    /\ UNCHANGED <<resolver, state, windows, exit_scheduled, panicked, events_left,
                   next_webview_id, next_window_id>>

\* One iteration of the loop over the cloned list: drain the window's
\* buffer and apply the commands.
CommandsApplied(w, commands, r) ==
    /\ windows' = [windows EXCEPT ![w] = r.win]
    /\ calls' = r.calls
    /\ batch' = [window |-> w, commands |-> commands]
    /\ applied' = r.applied
    /\ next_webview_id' = r.next

ApplyWindowCommands(w) ==
    /\ pc = "commands" /\ panicked = NoPanic
    /\ w \in pending
    /\ CommandsApplied(
           w,
           Window_take_user_interface_commands(windows[w]).commands,
           handle_interface_commands_for_window(
               Window_take_user_interface_commands(windows[w]).win,
               Window_take_user_interface_commands(windows[w]).commands,
               next_webview_id))
    /\ pending' = pending \ {w}
    /\ drains' = [drains EXCEPT ![w] = @ + 1]
    /\ UNCHANGED <<taken, resolver, pump, pruned, state, exit_scheduled, pc, ret, panicked, refreshed, repainted,
                   events_left, next_window_id>>

\* spin_event_loop is entered: the engine starts its unit of work.
SpinServo ==
    /\ pc = "commands" /\ panicked = NoPanic
    /\ pending = {}
    /\ pc' = "spin"
    /\ events_left' = MaxEvents
    /\ calls' = << >>
    /\ batch' = NoBatch
    /\ applied' = << >>
    /\ drains' = << >>
    /\ UNCHANGED <<taken, resolver, pump, pruned, state, windows, exit_scheduled, pending, ret, panicked,
                   refreshed, repainted, next_webview_id, next_window_id>>

(***************************************************************************)
(* WebViewDelegate for RunningAppState: the notifications of the engine,   *)
(* delivered while it spins.                                               *)
(***************************************************************************)
NeedsUpdateEvents ==
    {"notify_status_text_changed", "notify_history_changed",
     "notify_page_title_changed", "notify_load_status_changed"}

\* Handlers that only call the platform window of the owning window.
PlatformEvents ==
    {"screen_geometry", "request_move_to", "request_resize_to",
     "request_authentication", "notify_input_event_handled",
     "notify_cursor_changed", "notify_fullscreen_state_changed",
     "show_bluetooth_device_dialog", "request_permission",
     "notify_media_session_event", "notify_crashed"}

RoutedEvents ==
    NeedsUpdateEvents \cup PlatformEvents
    \cup {"notify_closed", "notify_new_frame_ready", "show_embedder_control",
          "hide_embedder_control", "notify_favicon_changed"}

\* Handlers that never look at the view they are given.
UnroutedEvents == {"play_gamepad_haptic_effect", "stop_gamepad_haptic_effect"}

\* Handlers of which notify_load_status_changed does nothing.
DelegateOnWindow_DropsLoadStatus(kind, w, id) ==
    IF kind \in NeedsUpdateEvents \ {"notify_load_status_changed"}
    THEN WinResult(Window_set_needs_update(w), << >>, NoPanic)
    ELSE IF kind = "notify_new_frame_ready"
    THEN WinResult(Window_set_needs_repaint(w), << >>, NoPanic)
    ELSE IF kind = "notify_closed" THEN Window_close_webview(w, id)
    ELSE IF kind = "show_embedder_control"
    THEN WinResult(Window_show_embedder_control(w), << >>, NoPanic)
    ELSE IF kind = "hide_embedder_control"
    THEN WinResult(Window_hide_embedder_control(w), << >>, NoPanic)
    ELSE IF kind = "notify_favicon_changed"
    THEN WinResult(Window_notify_favicon_changed(w, id), << >>, NoPanic)
    ELSE WinResult(w, << >>, NoPanic)

\* Handlers of which notify_closed only marks the window.
DelegateOnWindow_ClosedKeepsView(kind, w, id) ==
    IF kind \in NeedsUpdateEvents THEN WinResult(Window_set_needs_update(w), << >>, NoPanic)
    ELSE IF kind = "notify_new_frame_ready"
    THEN WinResult(Window_set_needs_repaint(w), << >>, NoPanic)
    ELSE IF kind = "notify_closed"
    THEN WinResult(Window_set_needs_repaint(Window_set_needs_update(w)), << >>, NoPanic)
    ELSE IF kind = "show_embedder_control"
    THEN WinResult(Window_show_embedder_control(w), << >>, NoPanic)
    ELSE IF kind = "hide_embedder_control"
    THEN WinResult(Window_hide_embedder_control(w), << >>, NoPanic)
    ELSE IF kind = "notify_favicon_changed"
    THEN WinResult(Window_notify_favicon_changed(w, id), << >>, NoPanic)
    ELSE WinResult(w, << >>, NoPanic)

\* What a handler does to the window that window_for_webview_id returned.
DelegateOnWindow(kind, w, id) ==
    IF kind \in NeedsUpdateEvents THEN WinResult(Window_set_needs_update(w), << >>, NoPanic)
    ELSE IF kind = "notify_new_frame_ready"
    THEN WinResult(Window_set_needs_repaint(w), << >>, NoPanic)
    ELSE IF kind = "notify_closed" THEN Window_close_webview(w, id)
    ELSE IF kind = "show_embedder_control"
    THEN WinResult(Window_show_embedder_control(w), << >>, NoPanic)
    ELSE IF kind = "hide_embedder_control"
    THEN WinResult(Window_hide_embedder_control(w), << >>, NoPanic)
    ELSE IF kind = "notify_favicon_changed"
    THEN WinResult(Window_notify_favicon_changed(w, id), << >>, NoPanic)
    ELSE WinResult(w, << >>, NoPanic)

\* A lookup without the expect: no owner, nothing to do.
window_for_webview_id_Silent(wins, webview_id) ==
    [panicked |-> NoPanic,
     windows |-> maybe_window_for_webview_id(wins, webview_id)]

\* window_for_webview_id: the expect on the scan's result.
window_for_webview_id(wins, webview_id) ==
    [panicked |-> IF maybe_window_for_webview_id(wins, webview_id) = {}
                  THEN ExpectWindow ELSE NoPanic,
     windows |-> maybe_window_for_webview_id(wins, webview_id)]

\* The window map after the handler left r for window w.
Delivered(wins, w, r) ==
    [wins |-> [wins EXCEPT ![w] = r.win], calls |-> r.calls, panicked |-> r.panicked]

\* The outcomes of a handler, one for each window the scan can return; with
\* no owner the handler panics and nothing is changed.
DelegateTo(wins, kind, id, target) ==
    IF target.panicked # NoPanic
    THEN {[wins |-> wins, calls |-> << >>, panicked |-> target.panicked]}
    ELSE {Delivered(wins, w, DelegateOnWindow(kind, wins[w], id)) : w \in target.windows}

Delegate(wins, kind, id) ==
    DelegateTo(wins, kind, id, window_for_webview_id(wins, id))

DelegateEvent(kind, id) ==
    /\ pc = "spin" /\ panicked = NoPanic
    /\ events_left > 0
    /\ kind = "notify_favicon_changed" => PendingFavicons(windows) < MaxFavicons
    /\ \E r \in Delegate(windows, kind, id) :
           /\ windows' = r.wins
           /\ calls' = r.calls
           /\ panicked' = r.panicked
    /\ events_left' = events_left - 1
    /\ UNCHANGED <<taken, resolver, drains, pump, pruned, state, exit_scheduled, pc, pending, ret, obs,
                   next_webview_id, next_window_id>>

UnroutedEvent(kind, id) ==
    /\ pc = "spin" /\ panicked = NoPanic
    /\ events_left > 0
    /\ events_left' = events_left - 1
    /\ calls' = << >>
    /\ UNCHANGED <<taken, resolver, drains, pump, pruned, state, windows, exit_scheduled, pc, pending, ret, panicked, obs,
                   next_webview_id, next_window_id>>

\* A spin_event_loop without its loop over the windows' flags.
SpinReturn_SkipsUpdate ==
    /\ pc = "spin" /\ panicked = NoPanic
    /\ pc' = "prune"
    /\ events_left' = 0
    /\ calls' = << >>
    /\ UNCHANGED <<taken, resolver, drains, pump, pruned, state, windows, exit_scheduled, pending, ret,
                   panicked, obs, next_webview_id, next_window_id>>

\* servo.spin_event_loop() returns.
SpinReturn ==
    /\ pc = "spin" /\ panicked = NoPanic
    /\ pc' = "update"
    /\ events_left' = 0
    /\ calls' = << >>
    /\ UNCHANGED <<taken, resolver, drains, pump, pruned, state, windows, exit_scheduled, pending, ret, panicked, obs,
                   next_webview_id, next_window_id>>

\* What the loop leaves: r holds the outcome for each window.
Updated(r) ==
    /\ windows' = [w \in DOMAIN r |-> r[w].win]
    /\ refreshed' = {w \in DOMAIN r : r[w].asked}
    /\ repainted' = {w \in DOMAIN r : r[w].repaint}

\* The loop over the windows calling update_and_request_repaint_if_necessary;
\* refresh holds the windows whose interface answers that it changed.
UpdateWindows(refresh) ==
    /\ pc = "update" /\ panicked = NoPanic
    /\ refresh \subseteq {w \in DOMAIN windows : windows[w].needs_update}
    /\ Updated([w \in DOMAIN windows |->
                   Window_update_and_request_repaint_if_necessary(
                       windows[w], w \in refresh)])
    /\ pc' = "prune"
    /\ calls' = << >>
    /\ UNCHANGED <<taken, resolver, drains, pump, pruned, state, exit_scheduled, pending, ret, panicked, batch, applied,
                   events_left, next_webview_id, next_window_id>>

\* windows.retain(..) of spin_event_loop.
PruneWindows ==
    /\ pc = "prune" /\ panicked = NoPanic
    /\ windows' = RetainWindows(windows, exit_scheduled)
    /\ pruned' = [w \in DOMAIN windows \ DOMAIN windows' |->
                      Window_should_close(windows[w])]
    /\ pc' = "return"
    /\ refreshed' = {}
    /\ repainted' = {}
    /\ calls' = << >>
    /\ UNCHANGED <<taken, resolver, drains, pump, state, exit_scheduled, pending, ret, panicked, batch, applied,
                   events_left, next_webview_id, next_window_id>>

\* A spin_event_loop without its "if self.windows.borrow().is_empty()".
ExitDecision_NoEmptyCheck(wins, exit) == exit

\* The exit decision of spin_event_loop.
ExitDecision(wins, exit) == exit \/ DOMAIN wins = {}

\* A spin_event_loop that always asks to be called again.
TickResult_Always(exit) == "true"

\* The value spin_event_loop returns: !self.exit_scheduled.get().
TickResult(exit) == IF exit THEN "false" ELSE "true"

\* The tail of spin_event_loop and of pump_servo_event_loop: schedule the
\* exit when no window is left, return, and shut down on false.
PumpReturn ==
    /\ pc = "return" /\ panicked = NoPanic
    /\ exit_scheduled' = ExitDecision(windows, exit_scheduled)
    /\ ret' = TickResult(exit_scheduled')
    /\ state' = IF ret' = "false" THEN "ShuttingDown" ELSE state
    /\ pump' = "tick"
    /\ pc' = "idle"
    /\ calls' = << >>
    /\ UNCHANGED <<taken, resolver, drains, pruned, windows, pending, panicked, obs, events_left,
                   next_webview_id, next_window_id>>

Next ==
    \/ Resumed
    \/ OpenWindow
    \/ \E w \in WindowIds, cmd \in Commands : PushCommand(w, cmd)
    \/ \E w \in WindowIds, id \in ViewIds : ActivateWebview(w, id)
    \/ \E w \in WindowIds, index \in 0..(MaxViews - 1) : ActivateWebviewByIndex(w, index)
    \/ \E w \in WindowIds : ScheduleClose(w)
    \/ \E w \in WindowIds : TakePendingFaviconLoads(w)
    \/ ScheduleExit
    \/ PumpNotRunning
    \/ PumpStart
    \/ \E w \in WindowIds : ApplyWindowCommands(w)
    \/ SpinServo
    \/ \E kind \in RoutedEvents, id \in ViewIds : DelegateEvent(kind, id)
    \/ \E kind \in UnroutedEvents, id \in ViewIds : UnroutedEvent(kind, id)
    \/ SpinReturn
    \/ \E refresh \in SUBSET WindowIds : UpdateWindows(refresh)
    \/ PruneWindows
    \/ PumpReturn

Spec == Init /\ [][Next]_vars

(***************************************************************************)
(* The resolver on its own: a text and a template are drawn, and           *)
(* location_bar_input_to_url is called with them once.                     *)
(***************************************************************************)
app == <<state, windows, exit_scheduled, pc, pending, ret, pump, panicked, calls,
         batch, applied, refreshed, repainted, pruned, drains, events_left,
         next_webview_id, next_window_id, taken>>

ResolverInit ==
    /\ AppInit
    /\ typed \in Inputs
    /\ template \in Templates
    /\ resolved = NotResolved

Resolve ==
    /\ resolved = NotResolved
    /\ resolved' = location_bar_input_to_url(typed, template)
    /\ UNCHANGED <<app, typed, template>>

ResolverNext == Resolve

ResolverSpec == ResolverInit /\ [][ResolverNext]_vars

(***************************************************************************)
(* Properties.                                                             *)
(***************************************************************************)
CollectionOf(w) == windows[w].webview_collection

Last(s) == s[Len(s)]

Shown(c) == {id \in DOMAIN c.webviews : c.webviews[id].shown}

\* C1: of a batch drained for a window, every command is applied, in buffer
\* order, also the commands that follow a Go whose text does not resolve.
C1_RestOfBatchApplied == applied = batch.commands

\* C2 as written: the pruning step removes a window only if its should_close
\* is true and exit is not scheduled; with exit scheduled it removes none.
C2_NoPruningOnceExitScheduled ==
    pc = "return" =>
        /\ \A w \in DOMAIN pruned : pruned[w] /\ ~exit_scheduled
        /\ exit_scheduled => DOMAIN pruned = {}

\* C2: the pruning step keeps a window only if its should_close is false
\* and exit is not scheduled: it removes the windows whose should_close is
\* true, and with exit scheduled it removes every window.
C2_PruneKeepsOpenWindowsUnlessExit ==
    pc = "return" =>
        /\ \A w \in DOMAIN windows : ~Window_should_close(windows[w]) /\ ~exit_scheduled
        /\ \A w \in DOMAIN pruned : pruned[w] \/ exit_scheduled
        /\ exit_scheduled => DOMAIN windows = {}

\* The pruning step ran with exit scheduled and removed a window that had
\* not asked to close.
C2_Witness ==
    /\ pc = "return"
    /\ exit_scheduled
    /\ \E w \in DOMAIN pruned : ~pruned[w]

\* C3: the lifecycle state only moves Initializing -> Running ->
\* ShuttingDown; ShuttingDown is never left, whatever the host signals.
C3_LifecycleOneWay ==
    [][\/ state' = state
       \/ state = "Initializing" /\ state' = "Running"
       \/ state = "Running" /\ state' = "ShuttingDown"]_vars

\* C4: a tick that ends with no window left has set exit_scheduled, and a
\* pump called after it returns false.
C4_AllClosedSchedulesExit ==
    /\ (pc = "idle" /\ pump = "tick" /\ DOMAIN windows = {})
           => exit_scheduled /\ state = "ShuttingDown"
    /\ (state = "ShuttingDown" /\ pump = "not_running") => ret = "false"

\* Every window was closed by a tick and the pump has been called again.
C4_Witness ==
    /\ state = "ShuttingDown"
    /\ pump = "not_running"
    /\ exit_scheduled
    /\ DOMAIN windows = {}
    /\ DOMAIN pruned # {}
    /\ \A w \in DOMAIN pruned : pruned[w]

\* C5: a tick returns true exactly when exit_scheduled is false at its end;
\* a tick that ends with the window set empty has set exit_scheduled,
\* returns false and leaves the application ShuttingDown.
C5_TickResult ==
    (pc = "idle" /\ pump = "tick") =>
        /\ ret = "true" <=> ~exit_scheduled
        /\ ret = "false" <=> exit_scheduled
        /\ DOMAIN windows = {} => exit_scheduled /\ ret = "false"
        /\ ret = "false" <=> state = "ShuttingDown"

\* The tick in which the last window was pruned returned false.
C5_Witness ==
    /\ pc = "idle"
    /\ pump = "tick"
    /\ ret = "false"
    /\ state = "ShuttingDown"
    /\ DOMAIN windows = {}
    /\ DOMAIN pruned # {}

\* C6: while the application is Initializing or ShuttingDown a step that
\* leaves it so is a pump that returns false: no buffer is drained, the
\* engine is not advanced, no window or view is changed.
C6_NoTickUnlessRunning ==
    [][(state # "Running" /\ state' # "Running") =>
           /\ ret' = "false"
           /\ pump' = "not_running"
           /\ pc' = "idle"
           /\ windows' = windows
           /\ exit_scheduled' = exit_scheduled
           /\ calls' = << >>
           /\ UNCHANGED <<drains, pending, obs, pruned, events_left,
                          next_webview_id, next_window_id>>]_vars

\* A pump was called before the first activation and returned false.
C6_Witness ==
    /\ state = "Initializing"
    /\ pump = "not_running"
    /\ ret = "false"
    /\ DOMAIN windows = {}

\* C7: the active identifier of every collection is unset or is in
\* creation_order.
C7_ActiveInCreationOrder ==
    \A w \in DOMAIN windows :
        \/ CollectionOf(w).active_webview_id = NoView
        \/ CollectionOf(w).active_webview_id \in Range(CollectionOf(w).creation_order)

\* A collection that saw add, activate and remove: the first view is active,
\* the second has been removed, the third is left.
C7_Witness ==
    \E w \in DOMAIN windows :
        /\ Len(CollectionOf(w).creation_order) = 2
        /\ CollectionOf(w).active_webview_id = CollectionOf(w).creation_order[1]
        /\ CollectionOf(w).creation_order[2] > CollectionOf(w).creation_order[1] + 1

\* After the active view of a collection was removed: the last view of
\* creation_order is active and is the one shown view, or no view is left
\* and none is active.
ActiveRemoved(c, d) ==
    /\ c.active_webview_id # NoView
    /\ c.active_webview_id \notin DOMAIN d.webviews

NewestActive(d) ==
    IF d.creation_order = << >>
    THEN d.active_webview_id = NoView
    ELSE /\ d.active_webview_id = Last(d.creation_order)
         /\ Shown(d) = {Last(d.creation_order)}
         /\ \A id \in DOMAIN d.webviews :
                d.webviews[id].focused <=> id = d.active_webview_id

\* C8: removing the active view of a collection with other views leaves
\* the last view of creation_order as the one active view; removing the
\* sole view leaves no active view.
C8_RemoveActivatesNewest ==
    [][\A w \in DOMAIN windows \cap DOMAIN windows' :
           ActiveRemoved(windows[w].webview_collection,
                         windows'[w].webview_collection)
               => NewestActive(windows'[w].webview_collection)]_vars

\* A batch that closed the active view of three: the removal made the
\* activation calls and two views are left.
C8_Witness ==
    /\ pc = "commands"
    /\ batch.window \in DOMAIN windows
    /\ Len(batch.commands) = 1
    /\ batch.commands[1].kind = "CloseWebView"
    /\ applied = batch.commands
    /\ calls # << >>
    /\ Len(CollectionOf(batch.window).creation_order) = 2
    /\ batch.commands[1].id < CollectionOf(batch.window).creation_order[1]

\* C9: activate_webview with an identifier that is not in creation_order
\* fails its assertion and leaves the collection as it was, with no call
\* made on any view.
C9_ActivateUnknownRejected ==
    \A w \in DOMAIN windows : \A id \in ViewIds \ Range(CollectionOf(w).creation_order) :
        /\ Collection_activate_webview(CollectionOf(w), id).panicked = AssertActivate
        /\ Collection_activate_webview(CollectionOf(w), id).coll = CollectionOf(w)
        /\ Collection_activate_webview(CollectionOf(w), id).calls = << >>

\* The user interface activated a view its window does not hold: the
\* assertion failed.
C9_Witness ==
    /\ panicked = AssertActivate
    /\ pc = "event"
    /\ calls = << >>

Drains(w) == pc = "commands" /\ w \in pending /\ pending' = pending \ {w}

\* The buffer of w is as it was or has one more command at its end.
BufferKept(w) ==
    \/ windows'[w].commands = windows[w].commands
    \/ \E cmd \in Commands : windows'[w].commands = Append(windows[w].commands, cmd)

\* C11: the drain of a window hands its whole buffer, as pushed, to the
\* applier and leaves the buffer empty; no other step takes a command out
\* of a buffer, and a window that goes away has an empty buffer.  So every
\* pushed command is handed over by exactly one drain.
C11_DrainHandsEachCommandOnce ==
    [][/\ \A w \in DOMAIN windows :
              Drains(w) =>
                  /\ batch' = [window |-> w, commands |-> windows[w].commands]
                  /\ w \in DOMAIN windows'
                  /\ windows'[w].commands = << >>
       /\ \A w \in DOMAIN windows \cap DOMAIN windows' : ~Drains(w) => BufferKept(w)
       /\ \A w \in DOMAIN windows \ DOMAIN windows' : windows[w].commands = << >>]_vars

\* A buffer of two commands was handed over whole and is now empty.
C11_Witness ==
    /\ pc = "commands"
    /\ batch.window \in DOMAIN windows
    /\ Len(batch.commands) = 2
    /\ windows[batch.window].commands = << >>

\* C12: while the commands are applied the windows are those of the
\* snapshot taken at the start of the tick, each drained once if it is no
\* longer pending and not yet otherwise; the engine is advanced only when
\* each of them has been drained exactly once.
C12_SnapshotDrainedOnce ==
    [][/\ (pc # "commands" /\ pc' = "commands") =>
              /\ pending' = DOMAIN windows
              /\ DOMAIN drains' = DOMAIN windows
       /\ pc = "commands" =>
              /\ DOMAIN windows' = DOMAIN windows
              /\ \A w \in DOMAIN windows :
                     /\ w \in DOMAIN drains
                     /\ drains[w] = IF w \in pending THEN 0 ELSE 1
              /\ (pc' = "commands" /\ batch' # batch) => batch'.window \in pending
              /\ pc' = "spin" =>
                     \A w \in DOMAIN windows : w \in DOMAIN drains /\ drains[w] = 1]_vars

\* Two windows, both drained once, the first of them after a command that
\* added a view to it.
C12_Witness ==
    /\ pc = "commands"
    /\ pending = {}
    /\ Cardinality(DOMAIN windows) = 2
    /\ \A w \in DOMAIN windows : drains[w] = 1
    /\ batch.commands = << >>
    /\ \E w \in DOMAIN windows \ {batch.window} :
           /\ Len(windows[w].webview_collection.creation_order) = 2
           /\ windows[w].needs_repaint

\* The order of the steps of a tick, as pairs of positions.
TickOrder ==
    {<<"idle", "event">>, <<"idle", "commands">>, <<"event", "commands">>,
     <<"commands", "spin">>, <<"spin", "update">>, <<"update", "prune">>,
     <<"prune", "return">>, <<"return", "idle">>}

FlagsClear(w) == ~w.needs_update /\ ~w.needs_repaint

\* C13: the steps of a tick follow one another in the fixed order commands,
\* engine advance, flags, pruning, exit decision; commands are applied only
\* in the first, engine events are delivered only in the advance, flags are
\* reset only in the flag step, windows are removed only by pruning, and
\* the flag step asks a repaint for every window whose needs_repaint the
\* commands or the engine's events of this tick left set.
C13_TickStepsInOrder ==
    [][/\ (pc' # pc => <<pc, pc'>> \in TickOrder)
       /\ ((batch' # batch /\ batch' # NoBatch) => pc = "commands")
       /\ (events_left' < events_left => pc = "spin")
       /\ (events_left' > events_left => (pc = "commands" /\ pc' = "spin"))
       /\ \A w \in DOMAIN windows \cap DOMAIN windows' :
              ((windows[w].needs_update /\ ~windows'[w].needs_update)
               \/ (windows[w].needs_repaint /\ ~windows'[w].needs_repaint))
                  => pc = "update"
       /\ ((\E w \in DOMAIN windows : w \notin DOMAIN windows')
               => pc \in {"prune", "idle"})
       /\ (exit_scheduled' # exit_scheduled => pc \in {"return", "idle"})
       /\ ((state' = "ShuttingDown" /\ state # "ShuttingDown") => pc = "return")
       /\ (pc = "update" /\ pc' # pc) =>
              /\ refreshed' = {w \in DOMAIN windows : windows[w].needs_update}
              /\ {w \in DOMAIN windows : windows[w].needs_repaint} \subseteq repainted'
              /\ \A w \in DOMAIN windows' : FlagsClear(windows'[w])]_vars

\* The flag step asked a repaint for a window whose user interface had
\* nothing to refresh: its needs_repaint was set by an event of the engine
\* during this tick's advance.
C13_Witness ==
    /\ pc = "prune"
    /\ refreshed = {}
    /\ repainted # {}

\* The engine call that a command makes on the active view, or the creation
\* of a view.
PrimaryOps == {"load", "go_back", "go_forward", "reload", "create"}

OpOf(cmd) ==
    IF cmd.kind = "Go" THEN "load"
    ELSE IF cmd.kind = "Back" THEN "go_back"
    ELSE IF cmd.kind = "Forward" THEN "go_forward"
    ELSE IF cmd.kind = "Reload" THEN "reload"
    ELSE IF cmd.kind = "NewWebView" THEN "create"
    ELSE "none"

PrimaryCalls(cs) ==
    [i \in 1..Len(SelectSeq(cs, LAMBDA c : c.op \in PrimaryOps)) |->
        SelectSeq(cs, LAMBDA c : c.op \in PrimaryOps)[i].op]

ExpectedOps(cmds) == [i \in 1..Len(cmds) |-> OpOf(cmds[i])]

\* a can be got from b by leaving elements out.
RECURSIVE IsSubseq(_, _)
IsSubseq(a, b) ==
    IF a = << >> THEN TRUE
    ELSE IF b = << >> THEN FALSE
    ELSE IF Head(a) = Head(b) THEN IsSubseq(Tail(a), Tail(b))
    ELSE IsSubseq(a, Tail(b))

\* The views that the applied commands closed.
ClosedBy(cmds) ==
    {cmds[i].id : i \in {j \in 1..Len(cmds) : cmds[j].kind = "CloseWebView"}}

\* C14: the commands applied for a window are an initial part of its
\* drained batch, the calls they made on the engine follow one another in
\* the order of the commands, and all of them are on views of that window.
C14_AppliedInBufferOrder ==
    pc = "commands" /\ batch # NoBatch =>
        /\ Len(applied) <= Len(batch.commands)
        /\ applied = SubSeq(batch.commands, 1, Len(applied))
        /\ IsSubseq(PrimaryCalls(calls), ExpectedOps(applied))
        /\ \A i \in 1..Len(calls) :
               calls[i].id \in DOMAIN CollectionOf(batch.window).webviews
                               \cup ClosedBy(applied)

\* Two different commands of one batch each made its call.
C14_Witness ==
    /\ pc = "commands"
    /\ Len(applied) = 2
    /\ OpOf(applied[1]) # OpOf(applied[2])
    /\ PrimaryCalls(calls) = ExpectedOps(applied)

NoViewLeft(w) ==
    /\ w.webview_collection.creation_order = << >>
    /\ DOMAIN w.webview_collection.webviews = {}

\* C16: should_close of a window is true exactly when its collection holds
\* no view or its close_scheduled is true, and a pruning step that runs
\* with exit not scheduled removes exactly the windows whose should_close
\* is true and keeps the others as they are.
C16_ShouldCloseAndPrune ==
    [][/\ \A w \in DOMAIN windows :
              /\ Window_should_close(windows[w])
                     <=> (NoViewLeft(windows[w]) \/ windows[w].close_scheduled)
              /\ NoViewLeft(windows[w])
                     <=> DOMAIN windows[w].webview_collection.webviews = {}
       /\ (pc = "prune" /\ pc' = "return" /\ ~exit_scheduled) =>
              \A w \in DOMAIN windows :
                  /\ w \notin DOMAIN windows'
                         <=> (NoViewLeft(windows[w]) \/ windows[w].close_scheduled)
                  /\ w \in DOMAIN windows' => windows'[w] = windows[w]]_vars

\* With exit not scheduled the pruning step removed a window whose
\* should_close was true and kept another.
C16_Witness ==
    /\ pc = "return"
    /\ ~exit_scheduled
    /\ DOMAIN windows # {}
    /\ \E w \in DOMAIN pruned : pruned[w]

\* The windows whose View Collection holds the view id.
Owners(id) == {w \in DOMAIN windows : id \in DOMAIN CollectionOf(w).webviews}

\* C17: a view is held by at most one window, and every handler that looks
\* up the window of its view acts on that window alone: no window is added
\* or removed and every other window is left as it was.
C17_EventChangesOwnerOnly ==
    \A id \in ViewIds :
        /\ Cardinality(Owners(id)) <= 1
        /\ Owners(id) # {} =>
               \A kind \in RoutedEvents :
                   /\ Delegate(windows, kind, id) # {}
                   /\ \A r \in Delegate(windows, kind, id) :
                          /\ r.panicked = NoPanic
                          /\ DOMAIN r.wins = DOMAIN windows
                          /\ \A o \in DOMAIN windows \ Owners(id) :
                                 r.wins[o] = windows[o]

\* During the advance an event of the engine set needs_repaint of one of
\* two windows; the other has no flag set.
C17_Witness ==
    /\ pc = "spin"
    /\ panicked = NoPanic
    /\ events_left < MaxEvents
    /\ Cardinality(DOMAIN windows) = 2
    /\ \E w \in DOMAIN windows :
           /\ windows[w].needs_repaint /\ ~windows[w].needs_update
           /\ \A o \in DOMAIN windows \ {w} : FlagsClear(windows[o])

\* The notifications the shell acts on.
SupportedEvents ==
    NeedsUpdateEvents \cup {"notify_new_frame_ready", "notify_favicon_changed",
                            "notify_closed"}

\* What the handler of kind for view id must have left in window after,
\* which was before.
Handled(kind, id, before, after) ==
    /\ kind \in NeedsUpdateEvents => after.needs_update
    /\ kind = "notify_new_frame_ready" => after.needs_repaint
    /\ kind = "notify_favicon_changed" =>
           /\ after.pending_favicon_loads = Append(before.pending_favicon_loads, id)
           /\ after.needs_repaint
    /\ kind = "notify_closed" =>
           /\ id \notin DOMAIN after.webview_collection.webviews
           /\ id \notin Range(after.webview_collection.creation_order)

\* C18: for a view that a window holds, the status-text, history, title
\* and load-status notifications leave needs_update of that window true,
\* new-frame-ready leaves needs_repaint true, favicon-changed appends the
\* view to pending_favicon_loads and leaves needs_repaint true, and
\* view-closed takes the view out of the collection.
C18_NotificationsTakeEffect ==
    \A id \in ViewIds : \A w \in Owners(id) : \A kind \in SupportedEvents :
        /\ Delegate(windows, kind, id) # {}
        /\ \A r \in Delegate(windows, kind, id) :
               /\ r.panicked = NoPanic
               /\ Handled(kind, id, windows[w], r.wins[w])

\* During the advance a favicon notification was recorded for a view of a
\* window.
C18_Witness ==
    /\ pc = "spin"
    /\ panicked = NoPanic
    /\ events_left < MaxEvents
    /\ \E w \in DOMAIN windows :
           /\ windows[w].pending_favicon_loads # << >>
           /\ Last(windows[w].pending_favicon_loads) \in DOMAIN CollectionOf(w).webviews
           /\ windows[w].needs_repaint

CloseViewCommand(id) == Cmd("CloseWebView", << >>, id)

\* The command applier's outcome for window w and the batch [CloseView(id)].
ClosedByCommand(w, id) ==
    handle_interface_commands_for_window(
        windows[w], <<CloseViewCommand(id)>>, next_webview_id)

\* C19: for a view that a window holds, the engine's view-closed event and
\* the CloseView command leave the window's View Collection the same: the
\* same views with the same shown and focused state, the same
\* creation_order and the same active view, after the same calls.
C19_ClosedEventAsCloseView ==
    \A id \in ViewIds : \A w \in Owners(id) :
        /\ Delegate(windows, "notify_closed", id) # {}
        /\ \A r \in Delegate(windows, "notify_closed", id) :
               /\ r.wins[w].webview_collection
                      = ClosedByCommand(w, id).win.webview_collection
               /\ r.calls = ClosedByCommand(w, id).calls
               /\ id \notin DOMAIN r.wins[w].webview_collection.webviews

\* The engine's view-closed event removed the active view of a window and
\* another view of it was activated.
C19_Witness ==
    /\ pc = "spin"
    /\ panicked = NoPanic
    /\ events_left < MaxEvents
    /\ calls # << >>
    /\ \E w \in DOMAIN windows :
           /\ windows[w].needs_update /\ windows[w].needs_repaint
           /\ CollectionOf(w).active_webview_id = calls[Len(calls)].id

NewViewCommand == Cmd("NewWebView", << >>, NoView)

\* Collection d is collection c with the new view id added at the end of
\* creation_order and made the active, shown and focused view.
NewViewAdded(c, d, id) ==
    /\ id \notin DOMAIN c.webviews
    /\ DOMAIN d.webviews = DOMAIN c.webviews \cup {id}
    /\ d.creation_order = Append(c.creation_order, id)
    /\ d.active_webview_id = id
    /\ Shown(d) = {id}
    /\ \A v \in DOMAIN d.webviews : d.webviews[v].focused <=> v = id

\* C20: applying NewView to a window leaves its needs_update set, creates
\* one view with the engine's next identifier, appends it to the window's
\* creation_order and makes it the active view; the View Collection of
\* every other window is as it was.
C20_NewViewAppendsAndActivates ==
    [][\A w \in DOMAIN windows :
           (Drains(w) /\ windows[w].commands = <<NewViewCommand>>) =>
               /\ applied' = <<NewViewCommand>>
               /\ windows'[w].needs_update
               /\ NewViewAdded(windows[w].webview_collection,
                               windows'[w].webview_collection, next_webview_id)
               /\ next_webview_id' = next_webview_id + 1
               /\ Len(SelectSeq(calls', LAMBDA c : c.op = "create")) = 1
               /\ \A o \in DOMAIN windows \ {w} :
                      /\ o \in DOMAIN windows'
                      /\ windows'[o].webview_collection
                             = windows[o].webview_collection]_vars

\* NewView was applied to one of two windows, which now holds two views.
C20_Witness ==
    /\ pc = "commands"
    /\ batch.window \in DOMAIN windows
    /\ batch.commands = <<NewViewCommand>>
    /\ applied = batch.commands
    /\ Cardinality(DOMAIN windows) = 2
    /\ Len(CollectionOf(batch.window).creation_order) = 2
    /\ CollectionOf(batch.window).active_webview_id
           = Last(CollectionOf(batch.window).creation_order)

\* C21: applying CloseView(id) to a window leaves needs_update set and the
\* window's View Collection without id, in the table of views and in
\* creation_order; the other views keep their place in creation_order.
\* For an id the collection does not hold, the views, creation_order and
\* the active view are as they were, no engine call is made, and the
\* window operation does not panic.
C21_CloseViewRemoves ==
    \A w \in DOMAIN windows : \A id \in ViewIds :
        /\ ClosedByCommand(w, id).win.needs_update
        /\ id \notin DOMAIN ClosedByCommand(w, id).win.webview_collection.webviews
        /\ ClosedByCommand(w, id).win.webview_collection.creation_order
               = SelectSeq(CollectionOf(w).creation_order, LAMBDA v : v # id)
        /\ DOMAIN ClosedByCommand(w, id).win.webview_collection.webviews
               = DOMAIN CollectionOf(w).webviews \ {id}
        /\ Window_close_webview(Window_set_needs_update(windows[w]), id).panicked
               = NoPanic
        /\ (id \notin DOMAIN CollectionOf(w).webviews) =>
               /\ ClosedByCommand(w, id).win.webview_collection = CollectionOf(w)
               /\ ClosedByCommand(w, id).calls = << >>
               /\ ClosedByCommand(w, id).applied = <<CloseViewCommand(id)>>

\* A batch closed the same view twice: the first CloseView removed it, the
\* second found it gone, and the window still holds a view.
C21_Witness ==
    /\ pc = "commands"
    /\ batch.window \in DOMAIN windows
    /\ \E id \in ViewIds :
           /\ batch.commands = <<CloseViewCommand(id), CloseViewCommand(id)>>
           /\ id \notin DOMAIN CollectionOf(batch.window).webviews
    /\ applied = batch.commands
    /\ windows[batch.window].needs_update
    /\ CollectionOf(batch.window).creation_order # << >>
    /\ CollectionOf(batch.window).active_webview_id
           = Last(CollectionOf(batch.window).creation_order)

\* What the resolver answers for each text the model's user types.
Resolution ==
    [l \in GoLocations |-> location_bar_input_to_url(l, SearchPage)]

\* The commands that act on the active view, Navigate with the texts that
\* resolve, and the call each one makes on view id.
ActiveViewCommands ==
    {Cmd("Go", l, NoView) : l \in {g \in GoLocations : Resolution[g].ok}}
    \cup {Cmd(k, << >>, NoView) : k \in {"Back", "Forward", "Reload"}}

InstructionOf(cmd, id) ==
    IF cmd.kind = "Go" THEN CallWith("load", id, Resolution[cmd.location].url)
    ELSE IF cmd.kind = "Back" THEN CallWith("go_back", id, OneEntry)
    ELSE IF cmd.kind = "Forward" THEN CallWith("go_forward", id, OneEntry)
    ELSE Call("reload", id)

\* The command applier's outcome for window w and the batch [cmd].
AppliedAlone(w, cmd) ==
    handle_interface_commands_for_window(windows[w], <<cmd>>, next_webview_id)

\* C22: Navigate with a text that resolves, Back, Forward and Reload make
\* one engine call each, on the window's active view: load of the resolved
\* address, go_back or go_forward of one entry, reload.  In a window with no
\* active view they make no call.  In both cases the command is applied,
\* the batch goes on, and the View Collection is as it was.
C22_OneCallOnActiveView ==
    \A w \in DOMAIN windows : \A cmd \in ActiveViewCommands :
        LET r == AppliedAlone(w, cmd)
            active == Window_active_webview(windows[w])
        IN  /\ r.applied = <<cmd>>
            /\ ~r.stop
            /\ r.win.webview_collection = CollectionOf(w)
            /\ r.next = next_webview_id
            /\ (active # NoView) => r.calls = <<InstructionOf(cmd, active)>>
            /\ (active = NoView) => r.calls = << >>

\* A batch closed the only view of a window and then asked for a reload:
\* both commands were applied, no call was made, and the window holds no
\* view.
C22_Witness ==
    /\ pc = "commands"
    /\ panicked = NoPanic
    /\ batch.window \in DOMAIN windows
    /\ \E id \in ViewIds :
           batch.commands = <<CloseViewCommand(id), Cmd("Reload", << >>, NoView)>>
    /\ applied = batch.commands
    /\ calls = << >>
    /\ Collection_is_empty(CollectionOf(batch.window))
    /\ Window_active_webview(windows[batch.window]) = NoView

\* The calls cs visit the views of order one after the other, two calls a
\* view: show and focus for view id, hide and blur for every other view.
VisitsInOrder(cs, order, id) ==
    /\ Len(cs) = 2 * Len(order)
    /\ \A i \in 1..Len(order) :
           /\ cs[2 * i - 1] = Call(IF order[i] = id THEN "show" ELSE "hide", order[i])
           /\ cs[2 * i] = Call(IF order[i] = id THEN "focus" ELSE "blur", order[i])

\* C23: activate(id) for an id of the collection does not panic, sets
\* active_webview_id to id, and calls show and focus on that view and hide
\* and blur on every other view, in creation_order; afterwards id is the
\* one view of the collection that is shown and the one that is focused,
\* and the views and creation_order are the same.
C23_ActivateShowsOne ==
    \A w \in DOMAIN windows : \A id \in Range(CollectionOf(w).creation_order) :
        LET r == Collection_activate_webview(CollectionOf(w), id)
        IN  /\ r.panicked = NoPanic
            /\ r.coll.active_webview_id = id
            /\ VisitsInOrder(r.calls, CollectionOf(w).creation_order, id)
            /\ Shown(r.coll) = {id}
            /\ {v \in DOMAIN r.coll.webviews : r.coll.webviews[v].focused} = {id}
            /\ r.coll.creation_order = CollectionOf(w).creation_order
            /\ DOMAIN r.coll.webviews = DOMAIN CollectionOf(w).webviews

\* activate made the oldest of three views of a window the active one: it
\* is shown and focused and the two newer views are hidden and blurred.
C23_Witness ==
    \E w \in DOMAIN windows :
        /\ Len(CollectionOf(w).creation_order) = 3
        /\ CollectionOf(w).active_webview_id = CollectionOf(w).creation_order[1]
        /\ calls = ActivateLoop(CollectionOf(w).creation_order,
                                CollectionOf(w).creation_order[1])
        /\ Shown(CollectionOf(w)) = {CollectionOf(w).creation_order[1]}
        /\ panicked = NoPanic

\* The list of window w over one step.
Loads(w) == windows[w].pending_favicon_loads

\* C24: pending_favicon_loads of a window changes in two ways only.  A
\* favicon-changed event appends one identifier at its end, so the list is
\* in arrival order.  A take empties it and returns the whole list as it
\* was, so an identifier that was recorded is handed over by the one take
\* that follows its event and by no later take.  What a take returned is
\* exactly the list of the window it was called on.
C24_FaviconLoadsTakenOnce ==
    [][/\ \A w \in DOMAIN windows \cap DOMAIN windows' :
              \/ windows'[w].pending_favicon_loads = Loads(w)
              \/ /\ pc = "spin"
                 /\ \E id \in ViewIds :
                        windows'[w].pending_favicon_loads = Append(Loads(w), id)
                 /\ taken' = taken
              \/ /\ windows'[w].pending_favicon_loads = << >>
                 /\ taken' = Loads(w)
                 /\ windows' = [windows EXCEPT ![w].pending_favicon_loads = << >>]
       /\ (taken' # taken) =>
              \/ taken' = << >> /\ pc' = "commands"
              \/ \E w \in DOMAIN windows :
                     /\ taken' = Loads(w)
                     /\ w \in DOMAIN windows'
                     /\ windows'[w].pending_favicon_loads = << >>]_vars

\* A take returned the two identifiers that favicon-changed events had
\* recorded for two views of a window, and left the window's list empty.
C24_Witness ==
    /\ pc = "event"
    /\ panicked = NoPanic
    /\ Len(taken) = 2
    /\ taken[1] # taken[2]
    /\ \E w \in DOMAIN windows :
           /\ windows[w].pending_favicon_loads = << >>
           /\ {taken[1], taken[2]} \subseteq DOMAIN CollectionOf(w).webviews

(***************************************************************************)
(* The resolver: properties of ResolverSpec.                               *)
(***************************************************************************)
\* The resolver was called with typed and template.
Called == resolved # NotResolved

\* The request the steps of the resolver work on.
Request == Trim(typed)

\* C25: when the text parses as an address, the resolver returns that
\* address, the parse of the text itself, for every template and also for a
\* text with a space in it: what the file, domain and search steps would
\* have made of the text has no part in the result.
C25_QualifiedUnchanged ==
    (Called /\ ParseUrl(typed).ok) =>
        /\ resolved = ParseUrl(typed)
        /\ resolved = ParseUrl(Request)
        /\ \A t \in Templates : location_bar_input_to_url(typed, t) = resolved

\* The resolver returned the parse of a text with a space in it, which the
\* domain step and the search step would both have turned into other
\* addresses.
C25_Witness ==
    /\ Called
    /\ ParseUrl(typed).ok
    /\ Contains(Request, " ")
    /\ try_as_domain(Request).ok
    /\ try_as_domain(Request) # resolved
    /\ try_as_search_page(Request, template).ok
    /\ try_as_search_page(Request, template) # resolved

\* C26: for a text that is empty once it is trimmed the resolver returns no
\* address, whatever the template is.
C26_EmptyNeverResolves ==
    (Called /\ Request = << >>) =>
        /\ ~resolved.ok
        /\ \A t \in Templates : ~location_bar_input_to_url(typed, t).ok

\* The resolver was called with a text of spaces and a template that is an
\* address once the token is replaced by the empty text, and returned no
\* address.
C26_Witness ==
    /\ Called
    /\ typed # << >>
    /\ Request = << >>
    /\ ParseUrl(ReplaceToken(template, Request)).ok
    /\ ~resolved.ok

\* What the domain step makes of a request when it is tried.
Prefixed(request) == ParseUrl(<<"h","t","t","p","s",":","/","/">> \o request)

\* The request starts with a dot or has a space inside, and is neither an
\* address nor a path.
DotOrSpace ==
    /\ StartsWith(Request, <<".">>) \/ Contains(Request, " ")
    /\ ~ParseUrl(Request).ok
    /\ ~StartsWith(Request, <<"/">>)

FilePrefixed(request) == ParseUrl(<<"f","i","l","e",":","/","/">> \o request)

\* The condition under which the domain step is tried.
DomainMatched(request) ==
    (~Contains(request, " ") /\ is_reg_domain(request)) \/ is_domain_like(request)

\* C28 as written: for a text that is not an address, the first step that
\* matches decides: a text that starts with '/' resolves to what the file
\* step makes of it, and a registrable or domain-like text to what the
\* domain step makes of it, which is no address when the prefixed text is
\* malformed; no later step is tried.
C28_FirstMatchDecides ==
    (Called /\ ~ParseUrl(Request).ok) =>
        /\ StartsWith(Request, <<"/">>) => resolved = FilePrefixed(Request)
        /\ (~StartsWith(Request, <<"/">>) /\ DomainMatched(Request)) =>
               resolved = Prefixed(Request)

\* C28, amended: the steps are tried in the order parse, file, domain,
\* search, and the result is the first address a step yields.  A text that
\* starts with '/' resolves to the file address, which is well-formed for
\* every such text.  A registrable or domain-like text resolves to the text
\* prefixed with https:// when that is an address; when it is malformed the
\* domain step yields nothing and the result is what the search step makes
\* of the text.
C28_MalformedFallsThrough ==
    (Called /\ ~ParseUrl(Request).ok) =>
        /\ StartsWith(Request, <<"/">>) =>
               FilePrefixed(Request).ok /\ resolved = FilePrefixed(Request)
        /\ (~StartsWith(Request, <<"/">>) /\ DomainMatched(Request)) =>
               /\ Prefixed(Request).ok => resolved = Prefixed(Request)
               /\ ~Prefixed(Request).ok =>
                      resolved = try_as_search_page(Request, template)

\* A domain-like text with a space before its '/' is malformed once it is
\* prefixed with https://, and the resolver answered with the search page.
C28_Witness ==
    /\ Called
    /\ ~ParseUrl(Request).ok
    /\ is_domain_like(Request)
    /\ Contains(Request, "/") /\ Contains(Request, " ")
    /\ ~Prefixed(Request).ok
    /\ template = SearchPage
    /\ resolved.ok
    /\ resolved = try_as_search_page(Request, template)

\* The address https://<lower-cased request>/.
HttpsOf(request) ==
    ParseOk(<<"h","t","t","p","s",":","/","/">> \o LowerStr(request) \o <<"/">>)

\* The request has a dot that is neither its first nor its last character.
InternalDot(request) == \E i \in 2..(Len(request) - 1) : request[i] = "."

\* The request is made of letters and dots, has a dot, does not start with
\* one and has no two dots side by side.
DottedName(request) ==
    /\ request # << >>
    /\ \A i \in 1..Len(request) : request[i] \in Letters \cup {"."}
    /\ Contains(request, ".")
    /\ request[1] # "."
    /\ \A i \in 1..(Len(request) - 1) : ~(request[i] = "." /\ request[i + 1] = ".")

\* C29 as written: a text without a space that has an internal dot, does
\* not start with a dot and is not an address resolves to
\* https://<lower-cased text>/, with a trailing dot of the text kept, and so
\* never to the search page.
C29_DottedTokenToHttps ==
    (/\ Called
     /\ ~Contains(Request, " ")
     /\ InternalDot(Request)
     /\ ~StartsWith(Request, <<".">>)
     /\ ~ParseUrl(Request).ok) =>
        resolved = HttpsOf(Request)

\* C29, amended: a text made only of letters and dots, with a dot, without
\* a leading dot and without two dots side by side, resolves to
\* https://<lower-cased text>/ for every template; a trailing dot of the
\* text is the last character of the host.
C29_DottedNameToHttps ==
    (Called /\ DottedName(Request)) =>
        /\ resolved = HttpsOf(Request)
        /\ \A t \in Templates : location_bar_input_to_url(typed, t) = resolved
        /\ (Request[Len(Request)] = ".") =>
               resolved.url[Len(resolved.url) - 1] = "."

\* A dotted name with an upper-case letter and a trailing dot resolved to
\* the lower-cased https:// address, which ends with the dot and a '/'.
C29_Witness ==
    /\ Called
    /\ DottedName(Request)
    /\ InternalDot(Request)
    /\ Request[Len(Request)] = "."
    /\ LowerStr(Request) # Request
    /\ template = SearchPage
    /\ resolved = HttpsOf(Request)

\* The request has a '/', not as its first character, and is not an
\* address.
SlashInside ==
    /\ ~StartsWith(Request, <<"/">>)
    /\ Contains(Request, "/")
    /\ ~ParseUrl(Request).ok

\* The part of the request before its first '/'.
BeforeSlash(request) == SubSeq(request, 1, FirstOf(request, {"/"}) - 1)

\* C30 as written: a text with a '/' that is not its first character, and
\* that is not an address, is domain-like, with or without a dot, and
\* resolves to the address of the text prefixed with https://, not to the
\* search page.
C30_SlashInsideToHttps ==
    (Called /\ SlashInside) =>
        /\ is_domain_like(Request)
        /\ resolved.ok
        /\ resolved = Prefixed(Request)

\* C30, amended: such a text is domain-like, with or without a dot.  It
\* resolves to the address of the text prefixed with https:// whenever that
\* is well-formed, for every template, and it is well-formed when the part
\* before the first '/' is a non-empty run of letters, which is the host in
\* lower case.  When the prefixed text is malformed the result is what the
\* search step makes of the text.
C30_SlashInsideTriesHttps ==
    (Called /\ SlashInside) =>
        /\ is_domain_like(Request)
        /\ Prefixed(Request).ok =>
               /\ resolved = Prefixed(Request)
               /\ \A t \in Templates : location_bar_input_to_url(typed, t) = resolved
        /\ ~Prefixed(Request).ok =>
               resolved = try_as_search_page(Request, template)
        /\ (/\ BeforeSlash(Request) # << >>
            /\ \A i \in 1..Len(BeforeSlash(Request)) : BeforeSlash(Request)[i] \in Letters) =>
               /\ Prefixed(Request).ok
               /\ StartsWith(resolved.url,
                             <<"h","t","t","p","s",":","/","/">>
                                 \o LowerStr(BeforeSlash(Request)) \o <<"/">>)

\* A text without a dot and with a '/' inside resolved to the text prefixed
\* with https://, although the search page would have taken it.
C30_Witness ==
    /\ Called
    /\ SlashInside
    /\ ~Contains(Request, ".")
    /\ template = SearchPage
    /\ try_as_search_page(Request, template).ok
    /\ resolved.ok
    /\ resolved = Prefixed(Request)
    /\ resolved.url = <<"h","t","t","p","s",":","/","/">> \o Request

\* C31: when the commands of a tick closed view id with CloseView, the
\* engine's view-closed notification for id, delivered in the advance that
\* follows, does not panic and leaves every window as it is.
C31_SecondCloseTolerated ==
    \A id \in ViewIds :
        (/\ pc = "commands" /\ pending = {} /\ panicked = NoPanic
         /\ CloseViewCommand(id) \in Range(applied)
         /\ id < next_webview_id
         /\ Owners(id) = {}
         /\ DOMAIN windows # {}) =>
            \A r \in Delegate(windows, "notify_closed", id) :
                r.panicked = NoPanic /\ r.wins = windows

\* C32: after CloseView(id) is applied to the window that holds view id,
\* and after the engine's view-closed event for id is handled, the window's
\* pending_favicon_loads has no entry for id.
C32_CloseReleasesFaviconLoads ==
    \A id \in ViewIds : \A w \in Owners(id) :
        /\ id \notin Range(ClosedByCommand(w, id).win.pending_favicon_loads)
        /\ \A r \in Delegate(windows, "notify_closed", id) :
               id \notin Range(r.wins[w].pending_favicon_loads)

(***************************************************************************)
(* The host loop under continued ticking.                                  *)
(***************************************************************************)

\* A host event for a window of the running application, after which the
\* handler pumps the event loop.
HostEvent == \E w \in WindowIds : TakePendingFaviconLoads(w)

\* The loop over the cloned window list moves on to its next window.
LoopStep ==
    /\ pc = "commands" /\ panicked = NoPanic
    /\ \E w \in pending : pending' = pending \ {w}

\* The other steps of one pump_servo_event_loop call once its handler has
\* begun: straight-line code, each step follows the one before it.
TickStep ==
    \/ PumpStart
    \/ SpinServo
    \/ SpinReturn
    \/ \E refresh \in SUBSET WindowIds : UpdateWindows(refresh)
    \/ PruneWindows
    \/ PumpReturn

\* The application while host events keep arriving and every handler
\* that has begun runs to its end.
TickingSpec ==
    Spec /\ WF_vars(HostEvent) /\ WF_pending(LoopStep) /\ WF_vars(TickStep)

\* No window holds a view.
AllViewsClosed == \A w \in DOMAIN windows : NoViewLeft(windows[w])

\* C33: when from some point on the application has been started, no view
\* is left or created and nothing panics, continued ticking leads to
\* exit_scheduled set and the ShuttingDown state; and the tick that finds
\* the window set empty returns false, shuts down and does not panic.
C33_EmptyLeadsToExit ==
    /\ <>[](state # "Initializing" /\ AllViewsClosed /\ panicked = NoPanic)
           => <>(exit_scheduled /\ state = "ShuttingDown")
    /\ [][(pc = "return" /\ DOMAIN windows = {}) =>
              /\ exit_scheduled' /\ ret' = "false"
              /\ state' = "ShuttingDown" /\ panicked' = NoPanic]_vars

C33_Witness ==
    /\ pc = "idle" /\ pump = "tick" /\ ret = "false"
    /\ exit_scheduled /\ state = "ShuttingDown" /\ panicked = NoPanic
    /\ DOMAIN windows = {}
    /\ DOMAIN pruned # {}
    /\ \A w \in DOMAIN pruned : pruned[w]
    /\ next_webview_id > 1

\* C34: in every reachable state, each window's collection has an active
\* view exactly when it holds a view, and the active view is one it holds.
C34_ActiveIffNonEmpty ==
    \A w \in DOMAIN windows :
        /\ (CollectionOf(w).active_webview_id # NoView) <=>
               (CollectionOf(w).creation_order # << >>)
        /\ (CollectionOf(w).active_webview_id # NoView) =>
               CollectionOf(w).active_webview_id \in DOMAIN CollectionOf(w).webviews

\* In the spin step of a tick one window has been left without a view and
\* another holds several views, one of them active.
C34_Witness ==
    /\ pc = "spin" /\ panicked = NoPanic
    /\ \E w \in DOMAIN windows :
           /\ CollectionOf(w).active_webview_id = NoView
           /\ CollectionOf(w).creation_order = << >>
    /\ \E w \in DOMAIN windows :
           /\ Len(CollectionOf(w).creation_order) > 1
           /\ CollectionOf(w).active_webview_id \in DOMAIN CollectionOf(w).webviews

\* The identifiers of sequence s are pairwise different.
NoRepeat(s) == \A i, j \in DOMAIN s : s[i] = s[j] => i = j

\* C35: in every collection built by add (of views with new identifiers),
\* remove and activate, the keys of webviews are the elements of
\* creation_order, creation_order names no view twice, and remove of a view
\* that is not held returns None, makes no call and leaves the collection
\* as it is.
C35_KeysMatchOrder ==
    \A w \in DOMAIN windows :
        /\ DOMAIN CollectionOf(w).webviews = Range(CollectionOf(w).creation_order)
        /\ NoRepeat(CollectionOf(w).creation_order)
        /\ \A id \in ViewIds \ DOMAIN CollectionOf(w).webviews :
               Collection_remove(CollectionOf(w), id) =
                   [coll |-> CollectionOf(w), calls |-> << >>,
                    panicked |-> NoPanic, removed |-> FALSE]

\* A collection that has seen add, remove and activate: it holds two views,
\* the older one active, and an earlier view is gone from it.
C35_Witness ==
    \E w \in DOMAIN windows :
        /\ Len(CollectionOf(w).creation_order) = 2
        /\ CollectionOf(w).active_webview_id = CollectionOf(w).creation_order[1]
        /\ \E id \in ViewIds :
               /\ id < next_webview_id
               /\ Owners(id) = {}
               /\ id < CollectionOf(w).creation_order[1]

\* C36: remove of a held view that is not the active one leaves
\* active_webview_id as it is, keeps the remaining identifiers of
\* creation_order in their order, leaves every remaining view as it was,
\* and makes no show, hide, focus or blur call.
C36_RemoveInactiveIsQuiet ==
    \A w \in DOMAIN windows :
        \A id \in DOMAIN CollectionOf(w).webviews \ {CollectionOf(w).active_webview_id} :
            LET c == CollectionOf(w)
                r == Collection_remove(c, id)
            IN /\ r.removed /\ r.panicked = NoPanic
               /\ r.coll.active_webview_id = c.active_webview_id
               /\ IsSubseq(r.coll.creation_order, c.creation_order)
               /\ Range(r.coll.creation_order) = Range(c.creation_order) \ {id}
               /\ Len(r.coll.creation_order) = Len(c.creation_order) - 1
               /\ \A v \in DOMAIN r.coll.webviews : r.coll.webviews[v] = c.webviews[v]
               /\ r.calls = << >>

\* A window holds three views and the active one is the oldest, so a view
\* between other views and the newest view can each be removed while inactive.
C36_Witness ==
    \E w \in DOMAIN windows :
        /\ Len(CollectionOf(w).creation_order) = 3
        /\ CollectionOf(w).active_webview_id = CollectionOf(w).creation_order[1]

\* C37: in every reachable state no view is held by two windows, so the
\* scan of maybe_window_for_webview_id has at most one window it can return
\* for a view, whatever the order in which it visits the windows.
C37_OneOwnerOneAnswer ==
    /\ \A v, w \in DOMAIN windows :
           v # w => DOMAIN CollectionOf(v).webviews \cap DOMAIN CollectionOf(w).webviews = {}
    /\ \A id \in ViewIds :
           /\ Cardinality(maybe_window_for_webview_id(windows, id)) <= 1
           /\ \A w \in maybe_window_for_webview_id(windows, id) :
                  id \in Range(CollectionOf(w).creation_order)

\* Two windows hold views, the second window more than one, and the scan
\* finds the second window for one view and the first for another.
C37_Witness ==
    /\ Cardinality(DOMAIN windows) = 2
    /\ \E v, w \in DOMAIN windows :
           /\ v < w
           /\ Len(CollectionOf(w).creation_order) = 2
           /\ \E a, b \in ViewIds :
                  /\ maybe_window_for_webview_id(windows, a) = {v}
                  /\ maybe_window_for_webview_id(windows, b) = {w}

\* C38: no step takes exit_scheduled from true to false, and once a tick
\* has returned false (the application is ShuttingDown) no pump returns true.
C38_ExitScheduledMonotone ==
    [][/\ exit_scheduled => exit_scheduled'
       /\ state = "ShuttingDown" => ret' # "true"]_vars

\* C39: when a tick has returned true, the window set is not empty and
\* every window in it holds a view and has close_scheduled false.
C39_TrueTickLeavesLiveWindows ==
    (pc = "idle" /\ pump = "tick" /\ ret = "true") =>
        /\ DOMAIN windows # {}
        /\ \A w \in DOMAIN windows :
               /\ ~NoViewLeft(windows[w])
               /\ ~Collection_is_empty(CollectionOf(w))
               /\ ~windows[w].close_scheduled
               /\ ~Window_should_close(windows[w])

\* A tick returned true after it pruned one window that had lost its views
\* or was scheduled to close, and kept another.
C39_Witness ==
    /\ pc = "idle" /\ pump = "tick" /\ ret = "true" /\ panicked = NoPanic
    /\ DOMAIN windows # {}
    /\ DOMAIN pruned # {}

\* The kinds of the commands of sequence s.
Kinds(s) == {s[i].kind : i \in DOMAIN s}

\* Window w had one of its two flags set and has it clear afterwards.
FlagCleared(w) ==
    \/ windows[w].needs_update /\ ~windows'[w].needs_update
    \/ windows[w].needs_repaint /\ ~windows'[w].needs_repaint

\* C40: a flag of a window goes from true to false only in the flag step
\* of a tick, so commands and engine events only ever set flags; a batch of
\* Back and Forward commands leaves both flags of its window as they were,
\* and a batch in which a Navigate (resolved or not), Reload, NewView or
\* CloseView was applied leaves needs_update of its window set.
C40_FlagsClearedInFlagStepOnly ==
    [][/\ \A w \in DOMAIN windows \cap DOMAIN windows' :
              FlagCleared(w) => (pc = "update" /\ pc' = "prune")
       /\ (pc = "commands" /\ pending' # pending) =>
              /\ batch'.window \in DOMAIN windows \cap DOMAIN windows'
              /\ (Kinds(applied') \cap {"Go", "Reload", "NewWebView", "CloseWebView"} # {})
                     => windows'[batch'.window].needs_update
              /\ (Kinds(applied') \subseteq {"Back", "Forward"}) =>
                     /\ windows'[batch'.window].needs_update
                            = windows[batch'.window].needs_update
                     /\ windows'[batch'.window].needs_repaint
                            = windows[batch'.window].needs_repaint]_vars

\* In the command step of a tick, a batch of one Back and one Forward
\* command was applied to a window that holds an active view and left both
\* flags of the window clear.
C40_Witness ==
    /\ pc = "commands" /\ panicked = NoPanic
    /\ batch # NoBatch
    /\ batch.window \in DOMAIN windows
    /\ applied = batch.commands
    /\ Kinds(applied) = {"Back", "Forward"}
    /\ Window_active_webview(windows[batch.window]) # NoView
    /\ FlagsClear(windows[batch.window])

====
